---- MODULE Spec2Model ----
(***************************************************************************)
(* Verification model of the hard_hats video-analytics worker:             *)
(*   - the in-memory violation deduplicator (app/core/deduplication.py),   *)
(*   - the frame publisher (app/shared/redis/pubsub.py,                    *)
(*     app/worker/frame_publisher.py),                                     *)
(*   - the worker's event processor (app/worker/event_processor.py),       *)
(*   - the camera supervisor (app/worker/camera_manager.py).               *)
(* Each component has its own specification over the shared variables;     *)
(* the variables of the other components stay at their initial values.     *)
(* Time is wall-clock seconds, advanced by the Tick actions.  The clock    *)
(* is monotone and starts well after the epoch, as time.time() and         *)
(* datetime.utcnow() do.                                                   *)
(***************************************************************************)
EXTENDS Integers, Sequences, FiniteSets, TLC

VARIABLES
    now,            \* wall clock, seconds
    ticks,          \* number of clock advances so far (bounds the run)
    \* ---- core deduplicator (ViolationDeduplicator)
    recent,         \* _recent_violations: digest -> [last_seen, event_id]
    hist,           \* the latest deduplicator calls, oldest first, as far as they
                    \* begin should_create_event; register_event; should_create_event
    lastOp,         \* the latest deduplicator call
    calls,          \* number of deduplicator calls so far (bounds the run)
    \* ---- frame publishing (FrameProcessor, FramePublisher, Redis)
    fcall,          \* the publish_frame calls in progress, per caller
    latest,         \* Redis key latest_frame:<camera>: [data, expires]; data None = unset
    setLog,         \* per camera, the writes to latest_frame: [data, ex]
    topic,          \* per camera, the payloads published on frames:<camera>
    fstarted,       \* number of publish_frame calls so far (bounds the run)
    metaLog,        \* per camera, the TTLs set on camera_meta:<camera> after an HSET
    \* ---- worker event processor (EventProcessor, ViolationTracker)
    trackers,       \* EventProcessor.trackers: camera -> last_violations map
    job,            \* per camera, the process_detections call in progress
    store,          \* the rows of the events table
    bus,            \* per organization, the event ids published on events:<org>
    failed,         \* the events whose insert raised: [cam, kind, box, t]
    nextId,         \* the next fresh event id (uuid4); bounds the run
    \* ---- worker camera manager (CameraManager)
    ctxs,           \* the CameraContext objects created so far, with their tasks
    busy,           \* who holds the event loop between two awaits: a context whose
                    \* streaming loop runs, -1 = refresh_cameras returning, 0 = nobody
    cameras,        \* CameraManager.cameras: camera -> index in ctxs, 0 = no entry
    db,             \* the cameras table: camera -> configuration or Absent
    running,        \* CameraManager._running
    lock,           \* CameraManager._lock: "free", "refresh" or "stop"
    rp,             \* start()'s refresh and then the _refresh_loop task
    stopper,        \* the _stop_camera call in progress
    sp,             \* the stop() call
    status,         \* cameras.status of the Store: per camera the stored value,
                    \* the last value a task tried to write and whether it was written
    \* ---- shared frame broadcaster (SharedFrameBroadcaster), one camera
    pubsubs,        \* the PubSub objects created so far: channel state, the clients
                    \* set and the listener task made with them
    entry,          \* _subscriptions[camera]: index in pubsubs, 0 = no entry
    queues,         \* per client, the asyncio.Queue of its subscribe() call
    cl,             \* per client, where its subscribe() generator stands
    block,          \* SharedFrameBroadcaster._lock: the client holding it, None = free
    bsent,          \* number of frames the bus delivered so far (bounds the run)
    bcalls,         \* number of subscribe() calls so far (bounds the run)
    \* ---- configuration of one camera (_add_camera, _update_camera)
    dbrow,          \* the camera's row of the cameras table: <<>> = not active
    context,        \* the camera's CameraContext in self.cameras: <<>> = none
    spawned,        \* number of contexts created for the camera (bounds the run)
    lastpass,       \* the row and the context the refresh pass found, if the
                    \* latest step was a pass
    \* ---- RTSP connection (RTSPHandler.connect)
    conn,           \* the connect call in progress or the latest one
    \* ---- the dispatch decision of the streaming loop
    iteration,      \* the iteration in progress: what it found and what it did
    \* ---- grid quantization (ViolationDeduplicator.quantize_bbox)
    cell,           \* the latest quantize_bbox call: its arguments and the cell returned
    \* ---- source resolution (_connect_camera)
    resolved,       \* the latest _connect_camera call: the context, what could be opened, the source returned
    \* ---- core event processor called from several threads (_try_create_violation)
    thr,            \* per thread, its _try_create_violation call: where it stands and what should_create_event returned to it
    \* ---- one viewer of SharedFrameBroadcaster.subscribe and the publisher
    wire,           \* the frames of the camera: how many were written to latest_frame and how many the listener has received
    viewer,         \* one subscribe() generator: where it stands, its queue, the frames it yielded
    \* ---- the cooldown window of the core deduplicator
    chain           \* per signature, the sightings since its latest registration: when it was registered, the latest sighting, their number, whether all were suppressed

bcVars == <<pubsubs, entry, queues, cl, block, bsent, bcalls>>
cfgVars == <<dbrow, context, spawned, lastpass>>
connVars == <<conn>>
loopVars == <<iteration>>
qVars == <<cell>>
srcVars == <<resolved>>
thrVars == <<thr>>
yVars == <<wire, viewer>>
winVars == <<chain>>
coreVars ==<<recent, hist, lastOp, calls>>
frameVars == <<fcall, latest, setLog, topic, fstarted, metaLog>>
eventVars == <<trackers, job, store, bus, failed, nextId>>
workerVars == <<ctxs, busy, cameras, db, running, lock, rp, stopper, sp, status>>
vars == <<now, ticks, recent, hist, lastOp, calls,
          fcall, latest, setLog, topic, fstarted, metaLog,
          trackers, job, store, bus, failed, nextId,
          ctxs, busy, cameras, db, running, lock, rp, stopper, sp, status,
          pubsubs, entry, queues, cl, block, bsent, bcalls,
          dbrow, context, spawned, lastpass, conn, iteration,
          cell,
          resolved,
          thr,
          wire, viewer,
          chain>>

None == "none"

Min(a, b) == IF a <= b THEN a ELSE b
Max(a, b) == IF a >= b THEN a ELSE b

\* ------------------------------------------------------------------ bounds
MaxTicks == 3
MaxCalls == 5
MaxFrames == 3
MaxEvents == 2
MaxCtx == 2
MaxBFrames == 6
MaxSubscribes == 3
MaxSpawns == 3

\* ------------------------------------------------------- program constants
COOLDOWN_SECONDS == 30
STALE_SECONDS == 300
GRID_SIZE == 3
CLASS_NO_HARDHAT == 2
CLASS_NO_SAFETY_VEST == 4

\* The clock starts three cooldowns after the epoch: a first sighting is always
\* older than the cooldown measured from time 0.
StartTime == 3 * COOLDOWN_SECONDS
\* The clock advances by half a cooldown or by the stale threshold.
Advances == {COOLDOWN_SECONDS \div 2, STALE_SECONDS}

Tick ==
    /\ ticks < MaxTicks
    /\ \E d \in Advances : now' = now + d
    /\ ticks' = ticks + 1

\* ======================================================================
\* Core deduplicator: app/core/deduplication.py
\* ======================================================================
CoreCameras == {"camA"}
CoreClasses == {CLASS_NO_HARDHAT}
CoreFrame == <<640, 480>>
\* Two boxes whose centres fall in cell R0C0 and one whose centre is in R2C2.
CoreBoxes == {<<0, 0, 100, 100>>, <<40, 40, 160, 160>>, <<400, 300, 600, 460>>}
CoreEventIds == {"e1", "e2"}

\* Python's int() on a quotient a / b with b > 0: truncation toward zero.
IntTrunc(a, b) == IF a >= 0 THEN a \div b ELSE -((-a) \div b)

\* quantize_bbox: the grid cell <<row, col>> of the box's centre; the cell is
\* the "R{row}C{col}" string of the code.  cx / w * G is computed exactly.
quantize_bbox(bbox, frame_size) ==
    LET w == frame_size[1]
        h == frame_size[2]
        col == Min(IntTrunc((bbox[1] + bbox[3]) * GRID_SIZE, 2 * w), GRID_SIZE - 1)
        row == Min(IntTrunc((bbox[2] + bbox[4]) * GRID_SIZE, 2 * h), GRID_SIZE - 1)
    IN  <<row, col>>

\* DetectionSignature.hash: the digest of "camera:class:region".  The three
\* fields determine the formatted string; the truncated md5 of distinct
\* strings is taken to be distinct on the signatures modelled here.
SigHash(camera_id, class_id, region) == <<camera_id, class_id, region>>

CoreDigests ==
    {SigHash(c, k, quantize_bbox(b, CoreFrame)) :
        c \in CoreCameras, k \in CoreClasses, b \in CoreBoxes}

\* now - last_seen < self.cooldown
WithinCooldownMut(t, last_seen) == t - last_seen <= COOLDOWN_SECONDS
WithinCooldown(t, last_seen) == t - last_seen < COOLDOWN_SECONDS

\* The claim's "live entry": an entry seen less than a cooldown ago.
LiveEntry(d) == d \in DOMAIN recent /\ now - recent[d].last_seen < COOLDOWN_SECONDS

\* should_create_event: the returned flag.
ShouldCreate(d, t) ==
    ~(d \in DOMAIN recent /\ WithinCooldown(t, recent[d].last_seen))

AfterShouldCreateMut(d, t) == recent
\* should_create_event: the map afterwards (only a suppressed sighting writes).
AfterShouldCreate(d, t) ==
    IF d \in DOMAIN recent /\ WithinCooldown(t, recent[d].last_seen)
    THEN [recent EXCEPT ![d] = [last_seen |-> t, event_id |-> recent[d].event_id]]
    ELSE recent

PutEntry(m, d, e) == [x \in DOMAIN m \cup {d} |-> IF x = d THEN e ELSE m[x]]

\* The call history kept for the idempotence law: the longest suffix of the
\* last three calls that begins the pattern should_create_event (on a
\* signature with no live entry); register_event; should_create_event on one
\* digest.
Viable(h) ==
    \/ h = <<>>
    \/ /\ h[1].op = "should" /\ ~h[1].live
       /\ Len(h) >= 2 => (h[2].op = "register" /\ h[2].d = h[1].d)
       /\ Len(h) >= 3 => (h[3].op = "should" /\ h[3].d = h[1].d)

RECURSIVE Trim(_)
Trim(h) == IF Viable(h) THEN h ELSE Trim(Tail(h))

Push(h, r) == Trim(IF Len(h) < 3 THEN Append(h, r) ELSE Append(Tail(h), r))

should_create_event ==
    /\ calls < MaxCalls
    /\ \E c \in CoreCameras, k \in CoreClasses, b \in CoreBoxes :
        LET d == SigHash(c, k, quantize_bbox(b, CoreFrame)) IN
        /\ recent' = AfterShouldCreate(d, now)
        /\ hist' = Push(hist, [op |-> "should", d |-> d, res |-> ShouldCreate(d, now),
                               t |-> now, live |-> LiveEntry(d)])
        /\ lastOp' = [op |-> "should", age |-> 0]
    /\ calls' = calls + 1
    /\ UNCHANGED <<now, ticks, frameVars, eventVars, workerVars, bcVars, cfgVars, connVars, loopVars, qVars, srcVars, thrVars, yVars, winVars>>

register_event ==
    /\ calls < MaxCalls
    /\ \E d \in CoreDigests, e \in CoreEventIds :
        /\ recent' = PutEntry(recent, d, [last_seen |-> now, event_id |-> e])
        /\ hist' = Push(hist, [op |-> "register", d |-> d, res |-> TRUE,
                               t |-> now, live |-> LiveEntry(d)])
        /\ lastOp' = [op |-> "register", age |-> 0]
    /\ calls' = calls + 1
    /\ UNCHANGED <<now, ticks, frameVars, eventVars, workerVars, bcVars, cfgVars, connVars, loopVars, qVars, srcVars, thrVars, yVars, winVars>>

\* cleanup_stale: the keys deleted, those with ts < cutoff.
StaleKeysMut(m, cutoff) == {k \in DOMAIN m : m[k].last_seen <= cutoff}
StaleKeys(m, cutoff) == {k \in DOMAIN m : m[k].last_seen < cutoff}

cleanup_stale ==
    /\ calls < MaxCalls
    /\ \E max_age \in {COOLDOWN_SECONDS, STALE_SECONDS} :
        LET cutoff == now - max_age
            stale == StaleKeys(recent, cutoff)
        IN  /\ recent' = [k \in DOMAIN recent \ stale |-> recent[k]]
            /\ hist' = <<>>
            /\ lastOp' = [op |-> "cleanup", age |-> max_age]
    /\ calls' = calls + 1
    /\ UNCHANGED <<now, ticks, frameVars, eventVars, workerVars, bcVars, cfgVars, connVars, loopVars, qVars, srcVars, thrVars, yVars, winVars>>

TickCore == Tick /\ UNCHANGED <<coreVars, frameVars, eventVars, workerVars, bcVars, cfgVars, connVars, loopVars, qVars, srcVars, thrVars, yVars, winVars>>

InitCore ==
    /\ recent = <<>>
    /\ hist = <<>>
    /\ lastOp = [op |-> None, age |-> 0]
    /\ calls = 0

NextCore ==
    \/ should_create_event
    \/ register_event
    \/ cleanup_stale
    \/ TickCore


\* ======================================================================
\* Frame publishing: app/worker/frame_publisher.py (FrameProcessor) and
\* app/shared/redis/pubsub.py (FramePublisher)
\* ======================================================================
FrameCameras == {"camA", "camB"}
FrameData == {"jpegA", "jpegB"}
Callers == {"k1", "k2"}
LATEST_FRAME_TTL == 10
CAMERA_META_TTL == 30
FrameAdvances == {LATEST_FRAME_TTL \div 2}

IdleCall == [pc |-> "idle", cam |-> None, data |-> None, step |-> 0]

\* FramePublisher.publish_frame: its awaited Redis commands, in order.
PublisherStepsMut == <<"publish", "set">>
PublisherSteps == <<"set", "publish">>

\* The arguments of the SET on latest_frame:<camera>.
LatestFrameWriteMut(data) == [data |-> data, ex |-> 3 * LATEST_FRAME_TTL]
LatestFrameWrite(data) == [data |-> data, ex |-> LATEST_FRAME_TTL]

\* After Redis command number i of publish_frame: the next command, or return.
AfterStep(c, i) ==
    IF i < Len(PublisherSteps)
    THEN [c EXCEPT !.pc = PublisherSteps[i + 1], !.step = i + 1]
    ELSE IdleCall

\* FrameProcessor.publish_frame: the frame encodes and the publisher is
\* entered; it suspends at its first Redis command.
publish_frame(k) ==
    /\ fcall[k].pc = "idle"
    /\ fstarted < MaxFrames
    /\ \E cam \in FrameCameras, data \in FrameData :
        fcall' = [fcall EXCEPT ![k] =
                    [pc |-> PublisherSteps[1], cam |-> cam, data |-> data, step |-> 1]]
    /\ fstarted' = fstarted + 1
    /\ UNCHANGED <<metaLog, latest, setLog, topic, now, ticks, coreVars, eventVars, workerVars, bcVars, cfgVars, connVars, loopVars, qVars, srcVars, thrVars, yVars, winVars>>

\* FrameProcessor.publish_frame: cv2.imencode reports failure, False is
\* returned and Redis is not touched.
publish_frame_encode_fails(k) ==
    /\ fcall[k].pc = "idle"
    /\ fstarted < MaxFrames
    /\ fstarted' = fstarted + 1
    /\ UNCHANGED <<metaLog, fcall, latest, setLog, topic, now, ticks, coreVars, eventVars, workerVars, bcVars, cfgVars, connVars, loopVars, qVars, srcVars, thrVars, yVars, winVars>>

\* await self.client.set(f"latest_frame:{camera_id}", frame_data, ex=10)
client_set(k) ==
    /\ fcall[k].pc = "set"
    /\ LET c == fcall[k]
           w == LatestFrameWrite(c.data)
       IN  /\ latest' = [latest EXCEPT ![c.cam] =
                            [data |-> w.data, expires |-> now + w.ex]]
           /\ setLog' = [setLog EXCEPT ![c.cam] = Append(@, w)]
           /\ fcall' = [fcall EXCEPT ![k] = AfterStep(c, c.step)]
    /\ UNCHANGED <<metaLog, topic, fstarted, now, ticks, coreVars, eventVars, workerVars, bcVars, cfgVars, connVars, loopVars, qVars, srcVars, thrVars, yVars, winVars>>

\* await self.client.publish(channel, frame_data)
client_publish(k) ==
    /\ fcall[k].pc = "publish"
    /\ LET c == fcall[k]
       IN  /\ topic' = [topic EXCEPT ![c.cam] = Append(@, c.data)]
           /\ fcall' = [fcall EXCEPT ![k] = AfterStep(c, c.step)]
    /\ UNCHANGED <<metaLog, latest, setLog, fstarted, now, ticks, coreVars, eventVars, workerVars, bcVars, cfgVars, connVars, loopVars, qVars, srcVars, thrVars, yVars, winVars>>

\* A Redis command raises: the exception leaves FramePublisher.publish_frame
\* and is caught by FrameProcessor.publish_frame, which returns False.
client_error(k) ==
    /\ fcall[k].pc \in {"set", "publish"}
    /\ fcall' = [fcall EXCEPT ![k] = IdleCall]
    /\ UNCHANGED <<metaLog, latest, setLog, topic, fstarted, now, ticks, coreVars, eventVars, workerVars, bcVars, cfgVars, connVars, loopVars, qVars, srcVars, thrVars, yVars, winVars>>

TickFrames ==
    /\ ticks < MaxTicks
    /\ \E d \in FrameAdvances : now' = now + d
    /\ ticks' = ticks + 1
    /\ UNCHANGED <<coreVars, frameVars, eventVars, workerVars, bcVars, cfgVars, connVars, loopVars, qVars, srcVars, thrVars, yVars, winVars>>

\* GET latest_frame:<camera>: the register's value unless it has expired.
get_latest_frame(cam) ==
    IF now < latest[cam].expires THEN latest[cam].data ELSE None

InitFrames ==
    /\ fcall = [k \in Callers |-> IdleCall]
    /\ latest = [c \in FrameCameras |-> [data |-> None, expires |-> 0]]
    /\ setLog = [c \in FrameCameras |-> <<>>]
    /\ topic = [c \in FrameCameras |-> <<>>]
    /\ fstarted = 0
    /\ metaLog = [c \in FrameCameras |-> <<>>]

NextFrames ==
    \/ \E k \in Callers : publish_frame(k)
    \/ \E k \in Callers : publish_frame_encode_fails(k)
    \/ \E k \in Callers : client_set(k)
    \/ \E k \in Callers : client_publish(k)
    \/ \E k \in Callers : client_error(k)
    \/ TickFrames

\* ======================================================================
\* Worker event processor: app/worker/event_processor.py
\* ======================================================================
EvCameras == {"camA"}
\* The cameras of the organization: camB joins camA in SpecOrg.
OrgCameras == {"camA", "camB"}
OrgOf(c) == "org1"
Orgs == {OrgOf(c) : c \in EvCameras}
\* The inference frame: cameras are added with both sides clamped to 400.
INFERENCE_SIZE_CAP == 400
EvFrame == <<INFERENCE_SIZE_CAP, INFERENCE_SIZE_CAP>>
CELL_PIXELS == 50
QUEUE_MAXSIZE == 5
\* Person boxes with centroids (40, 40) and (60, 40): one cell of the 3 x 3
\* grid over the frame, two different 50-pixel cells.
EvBoxes == {<<20, 20, 60, 60>>, <<40, 20, 80, 60>>}

\* What the geometric tests of the processor find for one detected person:
\* hat = some NO-Hardhat box overlaps the head region with IoU > 0.1,
\* vest = some NO-Safety-Vest box overlaps the person box with IoU > 0.1,
\* zone = the centroid is inside the zone polygon;
\* conf = person["confidence"] in percent.
Persons ==
    {[box |-> <<20, 20, 60, 60>>, hat |-> TRUE, vest |-> FALSE, zone |-> TRUE,
      conf |-> 90],
     [box |-> <<40, 20, 80, 60>>, hat |-> TRUE, vest |-> TRUE, zone |-> FALSE,
      conf |-> 70]}
PersonLists ==
    {<<p>> : p \in Persons}
        \cup {l \in {<<p, q>> : p \in Persons, q \in Persons} : l[1] # l[2]}
\* The detections with the one person both cameras of the organization see.
OnePersonLists == {<<p>> : p \in {q \in Persons : q.zone}}

\* get_centroid (app/worker/vision.py)
get_centroid(box) == <<(box[1] + box[3]) \div 2, (box[2] + box[4]) \div 2>>

\* f"{kind}_{centroid[0]//50}_{centroid[1]//50}"
violation_key(kind, box) ==
    LET c == get_centroid(box)
    IN  <<kind, c[1] \div CELL_PIXELS, c[2] \div CELL_PIXELS>>

\* The severity the processor passes to _create_event with each kind of
\* violation: Severity.HIGH, Severity.MEDIUM, Severity.CRITICAL.
SeverityOf(kind) ==
    CASE kind = "no_hardhat" -> "high"
      [] kind = "no_vest" -> "medium"
      [] kind = "zone" -> "critical"

\* The arguments of _create_event for one violation of person p.
Violation(kind, p) ==
    [kind |-> kind, box |-> p.box, sev |-> SeverityOf(kind), conf |-> p.conf]

\* The violations one person raises, in the order the processor tests them.
PersonViolations(mode, p) ==
    IF mode = "ppe"
    THEN (IF p.hat THEN <<Violation("no_hardhat", p)>> ELSE <<>>)
         \o (IF p.vest THEN <<Violation("no_vest", p)>> ELSE <<>>)
    ELSE (IF p.zone THEN <<Violation("zone", p)>> ELSE <<>>)

RECURSIVE Violations(_, _)
Violations(mode, ps) ==
    IF ps = <<>> THEN <<>>
    ELSE PersonViolations(mode, Head(ps)) \o Violations(mode, Tail(ps))

TrackerKeyMut(c) == OrgOf(c)
\* self.trackers is keyed by camera_id
TrackerKey(c) == c

\* _get_tracker: the camera's tracker, created empty on first use.
_get_tracker(c) == IF c \in DOMAIN trackers THEN trackers[c] ELSE <<>>

\* ViolationTracker.should_emit: last_violations.get(key, 0), the test.
LastTime(tr, key) == IF key \in DOMAIN tr THEN tr[key] ELSE 0
ShouldEmit(tr, key, t) == t - LastTime(tr, key) >= COOLDOWN_SECONDS

\* ViolationTracker.should_emit: the map afterwards.
AfterShouldEmit(tr, key, t) ==
    IF ShouldEmit(tr, key, t)
    THEN [k \in DOMAIN tr \cup {key} |-> IF k = key THEN t ELSE tr[k]]
    ELSE tr

\* _create_event: its awaited steps after the thumbnail, in order.
CreateEventStepsMut == <<"publish", "insert">>
CreateEventSteps == <<"insert", "publish">>

IdleJob == [pc |-> "idle", todo |-> <<>>, cur |-> None, step |-> 0]

\* process_detections(camera, ..., detections, mode, ...): the call starts.
process_detections(c, Modes, Lists) ==
    /\ job[c].pc = "idle"
    /\ \E mode \in Modes, ps \in Lists :
        job' = [job EXCEPT ![c] = [IdleJob EXCEPT !.pc = "loop",
                                                  !.todo = Violations(mode, ps)]]
    /\ trackers' = [k \in DOMAIN trackers \cup {TrackerKey(c)} |-> _get_tracker(k)]
    /\ UNCHANGED <<store, bus, failed, nextId, now, ticks, coreVars, frameVars, workerVars, bcVars, cfgVars, connVars, loopVars, qVars, srcVars, thrVars, yVars, winVars>>

\* One violation of the list: should_emit, and if it admits the violation,
\* _create_event up to its first awaited step.
emit_step(c) ==
    /\ job[c].pc = "loop"
    /\ job[c].todo # <<>>
    /\ LET v == Head(job[c].todo)
           key == violation_key(v.kind, v.box)
           tr == trackers[TrackerKey(c)]
       IN  /\ trackers' = [trackers EXCEPT ![TrackerKey(c)] = AfterShouldEmit(tr, key, now)]
           /\ IF ShouldEmit(tr, key, now)
              THEN /\ nextId <= MaxEvents
                   /\ job' = [job EXCEPT ![c] =
                        [pc |-> CreateEventSteps[1], todo |-> Tail(job[c].todo),
                         cur |-> [id |-> nextId, cam |-> c, kind |-> v.kind,
                                  box |-> v.box, t |-> now,
                                  sev |-> v.sev, conf |-> v.conf],
                         step |-> 1]]
                   /\ nextId' = nextId + 1
              ELSE /\ job' = [job EXCEPT ![c].todo = Tail(job[c].todo)]
                   /\ UNCHANGED nextId
    /\ UNCHANGED <<store, bus, failed, now, ticks, coreVars, frameVars, workerVars, bcVars, cfgVars, connVars, loopVars, qVars, srcVars, thrVars, yVars, winVars>>

\* After awaited step number i of _create_event: the next step, or back to
\* the loop over the violations.
AfterCreateStep(j, i) ==
    IF i < Len(CreateEventSteps)
    THEN [j EXCEPT !.pc = CreateEventSteps[i + 1], !.step = i + 1]
    ELSE [j EXCEPT !.pc = "loop", !.cur = None, !.step = 0]

\* The row of an event: the event and its place in the order of the inserts.
Row(e, n) == [id |-> e.id, cam |-> e.cam, kind |-> e.kind, box |-> e.box,
              t |-> e.t, sev |-> e.sev, conf |-> e.conf, ord |-> n]

\* async with async_session_factory(): repo.create_event(event_data); commit.
insert_event(c) ==
    /\ job[c].pc = "insert"
    /\ store' = store \cup {Row(job[c].cur, Cardinality(store) + 1)}
    /\ job' = [job EXCEPT ![c] = AfterCreateStep(job[c], job[c].step)]
    /\ UNCHANGED <<trackers, bus, failed, nextId, now, ticks, coreVars, frameVars, workerVars, bcVars, cfgVars, connVars, loopVars, qVars, srcVars, thrVars, yVars, winVars>>

\* The insert or the commit raises: _create_event logs and returns None.
insert_fails(c) ==
    /\ job[c].pc = "insert"
    /\ failed' = failed \cup {[x \in {"cam", "kind", "box", "t"} |-> job[c].cur[x]]}
    /\ job' = [job EXCEPT ![c] = [job[c] EXCEPT !.pc = "loop", !.cur = None, !.step = 0]]
    /\ UNCHANGED <<trackers, store, bus, nextId, now, ticks, coreVars, frameVars, workerVars, bcVars, cfgVars, connVars, loopVars, qVars, srcVars, thrVars, yVars, winVars>>

\* _publish_event -> EventPublisher.publish_event: PUBLISH events:<org>.
publish_event(c) ==
    /\ job[c].pc = "publish"
    /\ bus' = [bus EXCEPT ![OrgOf(c)] = Append(@, job[c].cur.id)]
    /\ job' = [job EXCEPT ![c] = AfterCreateStep(job[c], job[c].step)]
    /\ UNCHANGED <<trackers, store, failed, nextId, now, ticks, coreVars, frameVars, workerVars, bcVars, cfgVars, connVars, loopVars, qVars, srcVars, thrVars, yVars, winVars>>

\* The publish raises: _create_event logs and returns None.
publish_fails(c) ==
    /\ job[c].pc = "publish"
    /\ job' = [job EXCEPT ![c] = [job[c] EXCEPT !.pc = "loop", !.cur = None, !.step = 0]]
    /\ UNCHANGED <<trackers, store, bus, failed, nextId, now, ticks, coreVars, frameVars, workerVars, bcVars, cfgVars, connVars, loopVars, qVars, srcVars, thrVars, yVars, winVars>>

\* The list is exhausted: process_detections returns.
process_detections_returns(c) ==
    /\ job[c].pc = "loop"
    /\ job[c].todo = <<>>
    /\ job' = [job EXCEPT ![c] = IdleJob]
    /\ UNCHANGED <<trackers, store, bus, failed, nextId, now, ticks, coreVars, frameVars, workerVars, bcVars, cfgVars, connVars, loopVars, qVars, srcVars, thrVars, yVars, winVars>>

TickEvents ==
    /\ ticks < MaxTicks
    /\ now' = now + COOLDOWN_SECONDS \div 2
    /\ ticks' = ticks + 1
    /\ UNCHANGED <<coreVars, frameVars, eventVars, workerVars, bcVars, cfgVars, connVars, loopVars, qVars, srcVars, thrVars, yVars, winVars>>

InitEvents ==
    /\ trackers = <<>>
    /\ job = [c \in OrgCameras |-> IdleJob]
    /\ store = {}
    /\ bus = [o \in Orgs |-> <<>>]
    /\ failed = {}
    /\ nextId = 1

NextEvents ==
    \/ \E c \in EvCameras : process_detections(c, {"ppe", "zone"}, PersonLists)
    \/ \E c \in EvCameras : emit_step(c)
    \/ \E c \in EvCameras : insert_event(c)
    \/ \E c \in EvCameras : insert_fails(c)
    \/ \E c \in EvCameras : publish_event(c)
    \/ \E c \in EvCameras : publish_fails(c)
    \/ \E c \in EvCameras : process_detections_returns(c)
    \/ TickEvents

\* The clock passes the stale threshold between two calls of the processor.
TickStale ==
    /\ ticks < MaxTicks
    /\ now' = now + STALE_SECONDS + COOLDOWN_SECONDS \div 2
    /\ ticks' = ticks + 1
    /\ UNCHANGED <<coreVars, frameVars, eventVars, workerVars, bcVars, cfgVars, connVars, loopVars, qVars, srcVars, thrVars, yVars, winVars>>

\* The event processor of a worker that runs on for longer than the stale
\* threshold, one camera in PPE mode whose frames show one person or nobody
\* (frames keep coming, so the processor never comes to rest).
\* ViolationTracker has should_emit and nothing else, and
\* EventProcessor.close, which clears the trackers, ends the worker.
NextPurge ==
    \/ \E c \in EvCameras :
        nextId <= MaxEvents /\ process_detections(c, {"ppe"}, OnePersonLists)
    \/ \E c \in EvCameras : process_detections(c, {"ppe"}, {<<>>})
    \/ \E c \in EvCameras : emit_step(c)
    \/ \E c \in EvCameras : insert_event(c)
    \/ \E c \in EvCameras : insert_fails(c)
    \/ \E c \in EvCameras : publish_event(c)
    \/ \E c \in EvCameras : publish_fails(c)
    \/ \E c \in EvCameras : process_detections_returns(c)
    \/ TickEvents
    \/ TickStale

\* The event processor called by the inference tasks of two cameras of one
\* organization, both in PPE mode with one person per frame.
NextOrg ==
    \/ \E c \in OrgCameras : process_detections(c, {"ppe"}, OnePersonLists)
    \/ \E c \in OrgCameras : emit_step(c)
    \/ \E c \in OrgCameras : insert_event(c)
    \/ \E c \in OrgCameras : insert_fails(c)
    \/ \E c \in OrgCameras : publish_event(c)
    \/ \E c \in OrgCameras : publish_fails(c)
    \/ \E c \in OrgCameras : process_detections_returns(c)
    \/ TickEvents

\* ======================================================================
\* Camera manager: app/worker/camera_manager.py
\* ======================================================================
WCameras == {"cam1", "cam2"}
\* What _connect_camera resolves a configuration to first: an RTSP url
\* (RTSPHandler.connect) or a file (RTSPHandler.open_file).
Sources == {"rtsp1", "file1"}
IsRtsp(src) == src = "rtsp1"
\* A row of the cameras table as the manager uses it; Absent = no active row.
Configs ==
    {[src |-> "rtsp1", enabled |-> TRUE], [src |-> "rtsp1", enabled |-> FALSE],
     [src |-> "file1", enabled |-> TRUE]}
Absent == [src |-> None, enabled |-> FALSE]
\* The contents of the cameras table the API process moves between: a change
\* adds, removes, replaces or reconfigures cameras.
Table(cfg1, cfg2) == [k \in WCameras |-> IF k = "cam1" THEN cfg1 ELSE cfg2]
Tables ==
    {Table(cfg1, cfg2) : cfg1 \in Configs \cup {Absent},
                         cfg2 \in {[src |-> "file1", enabled |-> TRUE], Absent}}

\* The tables that can follow table d: cam1 changes freely, cam2 is activated
\* at some time and stays active.
TablesAfter(d) == {t \in Tables : d["cam2"] # Absent => t["cam2"] # Absent}

\* The tables in which only cam1 is ever active.
OneCameraTables == {t \in Tables : t["cam2"] = Absent}

\* A CameraContext together with its two tasks.
NewContext(c, cfg) ==
    [cam |-> c, src |-> cfg.src, inference_enabled |-> cfg.enabled,
     state |-> "idle", cap |-> FALSE, infer_in_flight |-> FALSE,
     infer_task |-> FALSE,  \* context.infer_task is set
     waited |-> FALSE,      \* an inference interval has passed since last_infer_time
     read_ok |-> FALSE,     \* a frame was read since the state became connecting
     task |-> "new", tcancel |-> FALSE,    \* the _process_camera task
     itask |-> "none", icancel |-> FALSE,  \* the task context.infer_task names
     lost |-> 0,            \* live inference tasks the context no longer names
     last_detections |-> 0] \* 0 = the initial empty list, 1 = a result of infer

\* A context nothing refers to any more.
DeadCtx ==
    [cam |-> None, src |-> None, inference_enabled |-> FALSE,
     state |-> "stopped", cap |-> FALSE, infer_in_flight |-> FALSE,
     infer_task |-> FALSE, waited |-> FALSE, read_ok |-> FALSE,
     task |-> "done", tcancel |-> FALSE, itask |-> "none", icancel |-> FALSE,
     lost |-> 0, last_detections |-> 0]

CtxIds == DOMAIN ctxs
InferLive(x) == x.itask \in {"new", "predict", "events"}
\* The await points of _process_camera before its error handler.
TaskAwaits == {"st_connecting", "rtsp_sleep", "st_online", "re_sleep"}

\* Everything but the streaming loop runs between awaits of the event loop.
Idle == busy = 0
WorkerRest == <<cameras, db, running, lock, rp, stopper, sp>>
Others == <<now, ticks, coreVars, frameVars, eventVars, bcVars, cfgVars, connVars, loopVars, qVars, srcVars, thrVars, yVars, winVars>>

\* _update_camera_status: repo.update_status commits, or it raises (or finds
\* no row) and the failure is logged.
Wrote(st, c, value, ok) ==
    [st EXCEPT ![c] = [stored |-> IF ok THEN value ELSE @.stored,
                       last |-> value, ok |-> ok]]

\* The _process_camera task gets its first turn, or was cancelled before it.
task_start(i) ==
    /\ Idle
    /\ ctxs[i].task = "new"
    /\ ctxs' = [ctxs EXCEPT ![i] =
            IF @.tcancel
            THEN [@ EXCEPT !.task = "done", !.tcancel = FALSE]
            ELSE [@ EXCEPT !.state = "connecting", !.read_ok = FALSE,
                           !.task = "st_connecting"]]
    /\ UNCHANGED <<busy, WorkerRest, status, Others>>

\* What _connect_camera can have done when it returns or first sleeps.
Connected(x, read) ==
    [x EXCEPT !.cap = TRUE, !.read_ok = @ \/ read]

\* decrypt_credentials raises in RTSPHandler.connect, which returns the
\* error at once; _connect_camera then opens the placeholder, the demo video
\* or the test pattern and returns that capture without an error.
DecryptFailed(x) ==
    [Connected(x, FALSE) EXCEPT !.state = "streaming", !.task = "st_online"]

\* The status write "connecting" returned: _connect_camera.
task_connect(i, ok) ==
    /\ Idle
    /\ ctxs[i].task = "st_connecting" /\ ~ctxs[i].tcancel
    /\ \/ /\ ~IsRtsp(ctxs[i].src)
          /\ ctxs' = [ctxs EXCEPT ![i] =
                [Connected(@, FALSE) EXCEPT !.state = "streaming", !.task = "st_online"]]
       \/ /\ IsRtsp(ctxs[i].src)
          /\ \/ ctxs' = [ctxs EXCEPT ![i] =
                    [Connected(@, TRUE) EXCEPT !.state = "streaming", !.task = "st_online"]]
             \/ ctxs' = [ctxs EXCEPT ![i].task = "rtsp_sleep"]
             \/ ctxs' = [ctxs EXCEPT ![i] = DecryptFailed(@)]
    /\ status' = Wrote(status, ctxs[i].cam, "connecting", ok)
    /\ UNCHANGED <<busy, WorkerRest, Others>>

\* RTSPHandler.connect wakes from a backoff sleep: the next attempt reads a
\* frame, or the attempts are used up and a file or the test pattern is opened.
task_rtsp_retry(i) ==
    /\ Idle
    /\ ctxs[i].task = "rtsp_sleep" /\ ~ctxs[i].tcancel
    /\ \E read \in BOOLEAN :
        ctxs' = [ctxs EXCEPT ![i] =
            [Connected(@, read) EXCEPT !.state = "streaming", !.task = "st_online"]]
    /\ UNCHANGED <<busy, WorkerRest, status, Others>>

\* The status write "online" returned: last_infer_time = now, enter the loop.
task_streaming(i, ok) ==
    /\ Idle
    /\ ctxs[i].task = "st_online" /\ ~ctxs[i].tcancel
    /\ ctxs' = [ctxs EXCEPT ![i] = [@ EXCEPT !.waited = FALSE, !.task = "loop"]]
    /\ busy' = i
    /\ status' = Wrote(status, ctxs[i].cam, "online", ok)
    /\ UNCHANGED <<WorkerRest, Others>>

\* if should_infer and not context.infer_in_flight and context.inference_enabled
CanDispatch(x) == x.waited /\ ~x.infer_in_flight /\ x.inference_enabled

\* context.infer_in_flight = True; context.infer_task = create_task(...)
Dispatch(x) ==
    [x EXCEPT !.infer_in_flight = TRUE, !.infer_task = TRUE, !.itask = "new",
              !.icancel = FALSE,
              !.lost = @ + (IF InferLive(x) THEN 1 ELSE 0)]

\* The call of frame_processor.publish_frame passes fps, detection_count and
\* infer_fps, which FrameProcessor.publish_frame does not accept: TypeError,
\* handled by "except Exception" of _process_camera.
PublishRaises(x) == [x EXCEPT !.state = "error", !.task = "st_error"]

\* One iteration of the streaming loop, up to its next await or its end.
loop_iteration(i) ==
    /\ busy = i
    /\ ctxs[i].task = "loop"
    /\ LET x == ctxs[i] IN
       IF ~(running /\ x.state = "streaming")
       THEN /\ ctxs' = [ctxs EXCEPT ![i] = [x EXCEPT !.cap = FALSE, !.task = "done"]]
            /\ busy' = 0
       ELSE \/ \* the frame is read
               /\ LET r == [x EXCEPT !.read_ok = TRUE]
                      d == IF CanDispatch(r) THEN Dispatch(r) ELSE r
                  IN  ctxs' = [ctxs EXCEPT ![i] = PublishRaises(d)]
               /\ busy' = 0
            \/ \* the read fails, _connect_camera returns without sleeping
               /\ \E read \in BOOLEAN, w \in BOOLEAN :
                    /\ read => IsRtsp(x.src)
                    /\ ctxs' = [ctxs EXCEPT ![i] =
                            [Connected(x, read) EXCEPT !.waited = @ \/ w]]
               /\ UNCHANGED busy
            \/ \* the read fails, RTSPHandler.connect sleeps before a retry
               /\ IsRtsp(x.src)
               /\ ctxs' = [ctxs EXCEPT ![i] = [x EXCEPT !.cap = FALSE, !.task = "re_sleep"]]
               /\ busy' = 0
    /\ UNCHANGED <<WorkerRest, status, Others>>

\* The reconnect inside the loop wakes from its backoff sleep.
task_reconnect(i) ==
    /\ Idle
    /\ ctxs[i].task = "re_sleep" /\ ~ctxs[i].tcancel
    /\ \E read \in BOOLEAN, w \in BOOLEAN :
        ctxs' = [ctxs EXCEPT ![i] =
            [Connected(@, read) EXCEPT !.waited = @ \/ w, !.task = "loop"]]
    /\ busy' = i
    /\ UNCHANGED <<WorkerRest, status, Others>>

\* The status write a _process_camera task is suspended in.
PendingWrite == [st_connecting |-> "connecting", st_online |-> "online"]

CancelledMut(x) ==
    [x EXCEPT !.state = "error", !.cap = FALSE, !.task = "done", !.tcancel = FALSE]
\* "except asyncio.CancelledError" prints and leaves context.state alone;
\* "finally" releases the capture and the task ends.
Cancelled(x) == [x EXCEPT !.cap = FALSE, !.task = "done", !.tcancel = FALSE]

\* CancelledError is raised at the await the task is suspended in.
task_cancelled(i, ok) ==
    /\ Idle
    /\ ctxs[i].task \in TaskAwaits /\ ctxs[i].tcancel
    /\ ctxs' = [ctxs EXCEPT ![i] = Cancelled(@)]
    /\ IF ctxs[i].task \in DOMAIN PendingWrite
       THEN status' = Wrote(status, ctxs[i].cam, PendingWrite[ctxs[i].task], ok)
       ELSE UNCHANGED status
    /\ UNCHANGED <<busy, WorkerRest, Others>>

\* The status write "error" of the exception handler returned or was
\* cancelled: "finally" releases the capture and the task ends.
task_error_done(i, ok) ==
    /\ Idle
    /\ ctxs[i].task = "st_error"
    /\ ctxs' = [ctxs EXCEPT ![i] =
            [@ EXCEPT !.cap = FALSE, !.task = "done", !.tcancel = FALSE]]
    /\ status' = Wrote(status, ctxs[i].cam, "error", ok)
    /\ UNCHANGED <<busy, WorkerRest, Others>>

\* The finally block of _run_inference, reached by the end of the try block,
\* by "except Exception" or by a CancelledError passing through.
InferFinally(x) ==
    [x EXCEPT !.waited = FALSE, !.infer_in_flight = FALSE, !.infer_task = FALSE,
              !.itask = "done", !.icancel = FALSE]

\* "except Exception" of _run_inference: the error is printed
InferRaised(x) == InferFinally(x)

GotDetectionsMut(x) == [x EXCEPT !.last_detections = 1, !.infer_in_flight = FALSE]
\* context.last_detections = detections
GotDetections(x) == [x EXCEPT !.last_detections = 1]

\* The _run_inference task gets its first turn: asyncio.to_thread(infer, ...).
\* (The task is created by its worker task, so it is ahead in the ready queue
\* of whatever could cancel it.)
infer_start(i) ==
    /\ Idle
    /\ ctxs[i].itask = "new"
    /\ ctxs' = [ctxs EXCEPT ![i].itask = "predict"]
    /\ UNCHANGED <<busy, WorkerRest, status, Others>>

\* to_thread(infer) was cancelled, raised or returned; after a result
\* process_detections returns at once or awaits the insert of an event.
infer_predicted(i) ==
    /\ Idle
    /\ ctxs[i].itask = "predict"
    /\ IF ctxs[i].icancel
       THEN ctxs' = [ctxs EXCEPT ![i] = InferFinally(@)]
       ELSE \/ ctxs' = [ctxs EXCEPT ![i] = InferRaised(@)]
            \/ ctxs' = [ctxs EXCEPT ![i] = InferFinally(GotDetections(@))]
            \/ ctxs' = [ctxs EXCEPT ![i] = [GotDetections(@) EXCEPT !.itask = "events"]]
    /\ UNCHANGED <<busy, WorkerRest, status, Others>>

\* process_detections was cancelled, raised or returned: the finally block
\* is all that is left to run.
infer_events_done(i) ==
    /\ Idle
    /\ ctxs[i].itask = "events"
    /\ ctxs' = [ctxs EXCEPT ![i] =
            IF @.icancel THEN InferFinally(@) ELSE InferRaised(@)]
    /\ UNCHANGED <<busy, WorkerRest, status, Others>>

\* ------------------------------------------------ the manager's own tasks
Keys == {c \in WCameras : cameras[c] # 0}
ActiveIds(snap) == {c \in WCameras : snap[c] # Absent}
IdleStopper ==
    [by |-> None, ctx |-> 0, cam |-> None, pc |-> "idle", readd |-> FALSE,
     infer |-> FALSE]       \* an inference task of the context was live when
                            \* _stop_camera began
OffRefresh ==
    [who |-> None, pc |-> "off", snap |-> [c \in WCameras |-> Absent],
     cur |-> {}, rem |-> {}, todo |-> {}, cancel |-> FALSE,
     gone |-> {}]           \* the streaming cameras this pass has stopped as removed
\* The refresh activity once it has left refresh_cameras.
Outside(r, pc) ==
    [r EXCEPT !.pc = pc, !.snap = OffRefresh.snap, !.cur = {}, !.rem = {},
              !.todo = {}, !.cancel = FALSE, !.gone = {}]

\* current_ids - new_ids
RemovedIdsMut(current_ids, new_ids) == {}
RemovedIds(current_ids, new_ids) == current_ids \ new_ids

\* "async with self._lock" of refresh_cameras is entered.
EnterPass(r, snap) ==
    [r EXCEPT !.pc = "pass", !.snap = snap, !.cur = Keys,
              !.rem = RemovedIds(Keys, ActiveIds(snap)), !.todo = ActiveIds(snap)]

\* CameraManager.start
start ==
    /\ Idle
    /\ rp.pc = "off" /\ ~running /\ sp.pc = "idle"
    /\ running' = TRUE
    /\ rp' = [rp EXCEPT !.who = "start", !.pc = "db_read"]
    /\ UNCHANGED <<ctxs, busy, cameras, db, lock, stopper, sp, status, Others>>

\* The task of the refresh loop ends, or start() has raised.
Ended(r) == Outside(r, "ended")
\* "while self._running" of _refresh_loop, then sleep(60).
LoopAgain(r) == [Outside(r, IF running THEN "sleep" ELSE "ended") EXCEPT !.who = "loop"]

\* get_active_cameras raised: "except Exception" of _refresh_loop catches it
\* in a pass of the loop, start() lets it propagate.
ReadFailedMut(r) == Ended(r)
ReadFailed(r) == IF r.who = "loop" THEN LoopAgain(r) ELSE Ended(r)

\* sleep(60) of _refresh_loop returns: refresh_cameras starts its read.
refresh_wake ==
    /\ Idle
    /\ rp.pc = "sleep"
    /\ rp' = IF rp.cancel THEN Ended(rp) ELSE [rp EXCEPT !.pc = "db_read"]
    /\ UNCHANGED <<ctxs, busy, cameras, db, running, lock, stopper, sp, status, Others>>

\* get_active_cameras returned, raised or was cancelled.
refresh_db_read ==
    /\ Idle
    /\ rp.pc = "db_read"
    /\ IF rp.cancel
       THEN rp' = Ended(rp) /\ UNCHANGED lock
       ELSE \/ /\ lock = "free"
               /\ lock' = "refresh"
               /\ rp' = EnterPass(rp, db)
            \/ /\ lock # "free"
               /\ rp' = [rp EXCEPT !.pc = "lock_wait", !.snap = db]
               /\ UNCHANGED lock
            \/ /\ rp' = ReadFailed(rp)
               /\ UNCHANGED lock
    /\ UNCHANGED <<ctxs, busy, cameras, db, running, stopper, sp, status, Others>>

\* The refresh pass gets the lock it waited for, or is cancelled waiting.
refresh_lock ==
    /\ Idle
    /\ rp.pc = "lock_wait"
    /\ IF rp.cancel
       THEN rp' = Ended(rp) /\ UNCHANGED lock
       ELSE /\ lock = "free"
            /\ lock' = "refresh"
            /\ rp' = EnterPass(rp, rp.snap)
    /\ UNCHANGED <<ctxs, busy, cameras, db, running, stopper, sp, status, Others>>

\* _stop_camera up to its first await: pop, STOPPED, task.cancel().
StopBegin(by, c, readd) ==
    LET i == cameras[c] IN
    /\ i # 0
    /\ cameras' = [cameras EXCEPT ![c] = 0]
    /\ ctxs' = [ctxs EXCEPT ![i] =
            [@ EXCEPT !.state = "stopped", !.tcancel = (@ \/ ctxs[i].task # "done")]]
    /\ stopper' = [by |-> by, ctx |-> i, cam |-> c, pc |-> "await_task",
                   readd |-> readd, infer |-> InferLive(ctxs[i])]

\* _add_camera
AddCamera(cs, c, cfg) == Append(cs, NewContext(c, cfg))

\* source_changed of _update_camera
SourceChanged(x, cfg) == x.src # cfg.src

\* The next camera of the refresh pass, or its end.
refresh_pass_step ==
    /\ Idle
    /\ rp.pc = "pass" /\ stopper.pc = "idle"
    /\ \/ /\ rp.rem # {}
          /\ \E c \in rp.rem :
                /\ StopBegin("refresh", c, FALSE)
                /\ rp' = [rp EXCEPT !.rem = @ \ {c}, !.pc = "in_stop",
                        !.gone = IF ctxs[cameras[c]].state = "streaming"
                                 THEN @ \cup {c} ELSE @]
          /\ UNCHANGED <<lock, busy>>
       \/ /\ rp.rem = {} /\ rp.todo # {}
          /\ \E c \in rp.todo :
                LET cfg == rp.snap[c] IN
                IF c \in rp.cur
                THEN IF cameras[c] = 0
                     THEN /\ rp' = [rp EXCEPT !.todo = @ \ {c}]
                          /\ UNCHANGED <<ctxs, cameras, stopper>>
                     ELSE IF SourceChanged(ctxs[cameras[c]], cfg)
                     THEN /\ StopBegin("refresh", c, TRUE)
                          /\ rp' = [rp EXCEPT !.todo = @ \ {c}, !.pc = "in_stop"]
                     ELSE /\ ctxs' = [ctxs EXCEPT ![cameras[c]].inference_enabled = cfg.enabled]
                          /\ rp' = [rp EXCEPT !.todo = @ \ {c}]
                          /\ UNCHANGED <<cameras, stopper>>
                ELSE /\ Len(ctxs) < MaxCtx
                     /\ ctxs' = AddCamera(ctxs, c, cfg)
                     /\ cameras' = [cameras EXCEPT ![c] = Len(ctxs) + 1]
                     /\ rp' = [rp EXCEPT !.todo = @ \ {c}]
                     /\ UNCHANGED stopper
          /\ UNCHANGED <<lock, busy>>
       \/ /\ rp.rem = {} /\ rp.todo = {}
          /\ lock' = "free"
          /\ rp' = [rp EXCEPT !.pc = "complete"]
          /\ busy' = -1
          /\ UNCHANGED <<ctxs, cameras, stopper>>
    /\ UNCHANGED <<db, running, sp, status, Others>>

\* refresh_cameras has returned: start() creates the refresh task, or the
\* refresh loop goes round.
refresh_returns ==
    /\ busy = -1
    /\ rp.pc = "complete"
    /\ rp' = LoopAgain(rp)
    /\ busy' = 0
    /\ UNCHANGED <<ctxs, cameras, db, running, lock, stopper, sp, status, Others>>

\* "if context.infer_task:" of _stop_camera
InferToCancelMut(x) == FALSE
InferToCancel(x) == x.infer_task

\* A stopped context whose tasks have ended is garbage.
Collect(x) ==
    IF x.task = "done" /\ ~InferLive(x) /\ x.lost = 0 /\ ~x.cap
    THEN [DeadCtx EXCEPT !.cam = x.cam] ELSE x

\* A cancellation of the refresh task that arrives while it awaits a task
\* it has cancelled is caught by "except asyncio.CancelledError: pass".
Swallow(r, by) == IF by = "refresh" THEN [r EXCEPT !.cancel = FALSE] ELSE r

TaskAwaitedMut(x) == TRUE
\* "await context.task" returns once the worker task has ended.
TaskAwaited(x) == x.task = "done"

\* "await context.task" of _stop_camera returns or raises CancelledError.
stop_camera_task_done ==
    /\ Idle
    /\ stopper.pc = "await_task"
    /\ TaskAwaited(ctxs[stopper.ctx])
    /\ ctxs[stopper.ctx].itask # "new"
    /\ rp' = Swallow(rp, stopper.by)
    /\ IF InferToCancel(ctxs[stopper.ctx])
       THEN /\ ctxs' = [ctxs EXCEPT ![stopper.ctx].icancel = InferLive(ctxs[stopper.ctx])]
            /\ stopper' = [stopper EXCEPT !.pc = "await_infer"]
       ELSE /\ ctxs' = [ctxs EXCEPT ![stopper.ctx].cap = FALSE]
            /\ stopper' = [stopper EXCEPT !.pc = "status"]
    /\ UNCHANGED <<busy, cameras, db, running, lock, sp, status, Others>>

InferAwaitedMut(x) == TRUE
\* "await context.infer_task" returns once the task it names has ended.
InferAwaited(x) == ~InferLive(x)

\* "await context.infer_task" of _stop_camera returns or raises.
stop_camera_infer_done ==
    /\ Idle
    /\ stopper.pc = "await_infer"
    /\ InferAwaited(ctxs[stopper.ctx])
    /\ rp' = Swallow(rp, stopper.by)
    /\ ctxs' = [ctxs EXCEPT ![stopper.ctx].cap = FALSE]
    /\ stopper' = [stopper EXCEPT !.pc = "status"]
    /\ UNCHANGED <<busy, cameras, db, running, lock, sp, status, Others>>

OfflineStatusMut == "error"
\* _update_camera_status(camera_id, "offline") of _stop_camera
OfflineStatus == "offline"

\* The status write "offline" of _stop_camera returned, or the refresh task
\* was cancelled in it: the caller goes on, or the pass is abandoned.
stop_camera_returns(ok) ==
    /\ Idle
    /\ stopper.pc = "status"
    /\ stopper' = IdleStopper
    /\ LET cs == [ctxs EXCEPT ![stopper.ctx] = Collect(@)] IN
       IF stopper.by = "refresh"
       THEN /\ UNCHANGED sp
            /\ IF rp.cancel
               THEN /\ rp' = Ended(rp)
                    /\ lock' = "free"
                    /\ ctxs' = cs
                    /\ UNCHANGED cameras
               ELSE /\ rp' = [rp EXCEPT !.pc = "pass"]
                    /\ UNCHANGED lock
                    /\ IF stopper.readd
                       THEN /\ Len(ctxs) < MaxCtx
                            /\ ctxs' = AddCamera(cs, stopper.cam, rp.snap[stopper.cam])
                            /\ cameras' = [cameras EXCEPT ![stopper.cam] = Len(ctxs) + 1]
                       ELSE /\ ctxs' = cs
                            /\ UNCHANGED cameras
       ELSE /\ sp' = [sp EXCEPT !.pc = "pass"]
            /\ ctxs' = cs
            /\ UNCHANGED <<rp, lock, cameras>>
    /\ status' = Wrote(status, stopper.cam, OfflineStatus, ok)
    /\ UNCHANGED <<busy, db, running, Others>>

\* CameraManager.stop up to its first await.
stop_call ==
    /\ Idle
    /\ sp.pc = "idle" /\ running
    /\ running' = FALSE
    /\ IF rp.who = "loop" /\ rp.pc # "ended"
       THEN /\ rp' = [rp EXCEPT !.cancel = TRUE]
            /\ sp' = [sp EXCEPT !.pc = "await_refresh"]
       ELSE /\ sp' = [sp EXCEPT !.pc = "lock_wait"]
            /\ UNCHANGED rp
    /\ UNCHANGED <<ctxs, busy, cameras, db, lock, stopper, status, Others>>

\* "await self._refresh_task" of stop returns or raises CancelledError.
stop_refresh_ended ==
    /\ Idle
    /\ sp.pc = "await_refresh" /\ rp.pc = "ended"
    /\ sp' = [sp EXCEPT !.pc = "lock_wait"]
    /\ UNCHANGED <<ctxs, busy, cameras, db, running, lock, rp, stopper, status, Others>>

\* "async with self._lock" of stop: list(self.cameras.keys()).
stop_lock ==
    /\ Idle
    /\ sp.pc = "lock_wait" /\ lock = "free"
    /\ lock' = "stop"
    /\ sp' = [pc |-> "pass", todo |-> Keys]
    /\ UNCHANGED <<ctxs, busy, cameras, db, running, rp, stopper, status, Others>>

\* The next camera of stop, or its end (the publishers are closed).
stop_pass_step ==
    /\ Idle
    /\ sp.pc = "pass" /\ stopper.pc = "idle"
    /\ IF sp.todo # {}
       THEN /\ \E c \in sp.todo :
                /\ sp' = [pc |-> "in_stop", todo |-> sp.todo \ {c}]
                /\ StopBegin("stop", c, FALSE)
            /\ UNCHANGED lock
       ELSE /\ sp' = [pc |-> "closed", todo |-> {}]
            /\ lock' = "free"
            /\ UNCHANGED <<ctxs, cameras, stopper>>
    /\ UNCHANGED <<busy, db, running, rp, status, Others>>

\* The API process changes the cameras table.  Only get_active_cameras reads
\* the table, so the changes are taken where they can matter: while a read
\* of the table is pending.
db_change(Ts) ==
    /\ rp.pc = "db_read"
    /\ \E t \in Ts :
        /\ t # db
        /\ db' = t
    /\ UNCHANGED <<ctxs, busy, cameras, running, lock, rp, stopper, sp, status, Others>>

InitWorker ==
    /\ ctxs = <<>>
    /\ busy = 0
    /\ cameras = [c \in WCameras |-> 0]
    /\ db = Table([src |-> "rtsp1", enabled |-> TRUE], Absent)
    /\ running = FALSE
    /\ lock = "free"
    /\ rp = OffRefresh
    /\ stopper = IdleStopper
    /\ sp = [pc |-> "idle", todo |-> {}]
    /\ status = [c \in WCameras |-> [stored |-> None, last |-> None, ok |-> TRUE]]

Next ==
    \/ \E i \in CtxIds : task_start(i)
    \/ \E i \in CtxIds : task_connect(i, TRUE)
    \/ \E i \in CtxIds : task_rtsp_retry(i)
    \/ \E i \in CtxIds : task_streaming(i, TRUE)
    \/ \E i \in CtxIds : loop_iteration(i)
    \/ \E i \in CtxIds : task_reconnect(i)
    \/ \E i \in CtxIds : task_cancelled(i, TRUE)
    \/ \E i \in CtxIds : task_error_done(i, TRUE)
    \/ \E i \in CtxIds : infer_start(i)
    \/ \E i \in CtxIds : infer_predicted(i)
    \/ \E i \in CtxIds : infer_events_done(i)
    \/ start
    \/ refresh_wake
    \/ refresh_db_read
    \/ refresh_lock
    \/ refresh_pass_step
    \/ refresh_returns
    \/ stop_camera_task_done
    \/ stop_camera_infer_done
    \/ stop_camera_returns(TRUE)
    \/ stop_call
    \/ stop_refresh_ended
    \/ stop_lock
    \/ stop_pass_step
    \/ db_change(TablesAfter(db))

\* The camera manager with a Store that may reject or lose any status write
\* (_update_camera_status catches the exception, update_status writes nothing
\* without the row), for the one camera cam1.  In Next every status write is
\* stored; no action reads status, so that changes nothing else.
NextStore ==
    \/ \E i \in CtxIds : task_start(i)
    \/ \E i \in CtxIds, ok \in BOOLEAN : task_connect(i, ok)
    \/ \E i \in CtxIds : task_rtsp_retry(i)
    \/ \E i \in CtxIds, ok \in BOOLEAN : task_streaming(i, ok)
    \/ \E i \in CtxIds : loop_iteration(i)
    \/ \E i \in CtxIds : task_reconnect(i)
    \/ \E i \in CtxIds, ok \in BOOLEAN : task_cancelled(i, ok)
    \/ \E i \in CtxIds, ok \in BOOLEAN : task_error_done(i, ok)
    \/ \E i \in CtxIds : infer_start(i)
    \/ \E i \in CtxIds : infer_predicted(i)
    \/ \E i \in CtxIds : infer_events_done(i)
    \/ start
    \/ refresh_wake
    \/ refresh_db_read
    \/ refresh_lock
    \/ refresh_pass_step
    \/ refresh_returns
    \/ stop_camera_task_done
    \/ stop_camera_infer_done
    \/ \E ok \in BOOLEAN : stop_camera_returns(ok)
    \/ stop_call
    \/ stop_refresh_ended
    \/ stop_lock
    \/ stop_pass_step
    \/ db_change(OneCameraTables)

\* ------------------------------------------------- shared frame broadcaster
\* SharedFrameBroadcaster for one camera and the viewers of that camera.
\* A viewer drives one subscribe() generator at a time; it disconnects by
\* cancelling (or closing) the generator wherever it is suspended.

BClients == {"v1", "v2"}

BOthers == <<now, ticks, coreVars, frameVars, eventVars, workerVars, cfgVars, connVars, loopVars, qVars, srcVars, thrVars, yVars, winVars>>

\* pubsub = self.client.pubsub(): nothing subscribed, no clients, no task yet
NewPubSub == [chan |-> "new", clients |-> {}, task |-> "none", tcancel |-> FALSE]

Out == [pc |-> "out", ps |-> 0]

\* The bus subscriptions to the camera's frame channel that are open.
OpenSubscriptions == {p \in DOMAIN pubsubs : pubsubs[p].chan = "subscribed"}

\* The listener tasks that have not finished.
LiveListeners == {p \in DOMAIN pubsubs : pubsubs[p].task = "running"}

\* subscribe(): queue = asyncio.Queue(maxsize=5); the generator then waits
\* for self._lock.
subscribe(c) ==
    /\ cl[c].pc = "out"
    /\ bcalls < MaxSubscribes
    /\ bcalls' = bcalls + 1
    /\ queues' = [queues EXCEPT ![c] = <<>>]
    /\ cl' = [cl EXCEPT ![c] = [pc |-> "lock", ps |-> 0]]
    /\ UNCHANGED <<pubsubs, entry, block, bsent, BOthers>>

\* async with self._lock, up to the first await inside it: without an entry
\* for the camera a PubSub is made and pubsub.subscribe(channel) awaited with
\* the lock held; with an entry the queue joins its clients.
subscribe_locked(c) ==
    /\ cl[c].pc = "lock"
    /\ block = None
    /\ IF entry = 0
       THEN /\ pubsubs' = Append(pubsubs, NewPubSub)
            /\ cl' = [cl EXCEPT ![c] = [pc |-> "subscribing", ps |-> Len(pubsubs) + 1]]
            /\ block' = c
       ELSE /\ pubsubs' = [pubsubs EXCEPT ![entry].clients = @ \cup {c}]
            /\ cl' = [cl EXCEPT ![c] = [pc |-> "streaming", ps |-> 0]]
            /\ block' = None
    /\ UNCHANGED <<entry, queues, bsent, bcalls, BOthers>>

\* pubsub.subscribe(channel) returned: the listener task is created, the
\* entry stored, the queue added to the clients and the lock released.
subscribe_created(c) ==
    /\ cl[c].pc = "subscribing"
    /\ pubsubs' = [pubsubs EXCEPT ![cl[c].ps] =
            [chan |-> "subscribed", clients |-> {c}, task |-> "running",
             tcancel |-> FALSE]]
    /\ entry' = cl[c].ps
    /\ cl' = [cl EXCEPT ![c] = [pc |-> "streaming", ps |-> 0]]
    /\ block' = None
    /\ UNCHANGED <<queues, bsent, bcalls, BOthers>>

\* frame = await asyncio.wait_for(queue.get(), timeout=5.0); yield frame
queue_get(c) ==
    /\ cl[c].pc = "streaming"
    /\ queues[c] # <<>>
    /\ queues' = [queues EXCEPT ![c] = Tail(@)]
    /\ UNCHANGED <<pubsubs, entry, cl, block, bsent, bcalls, BOthers>>

\* The client goes away.  Waiting for the lock the generator is not yet in
\* its try block and just ends.  Inside pubsub.subscribe(channel) it leaves
\* the lock block with the PubSub it made, whose SUBSCRIBE was sent or not;
\* nothing refers to that PubSub afterwards.  Inside the try (get_latest_frame,
\* queue.get, a yield) the finally block runs and waits for the lock.
disconnect(c) ==
    /\ \/ /\ cl[c].pc = "lock"
          /\ cl' = [cl EXCEPT ![c] = Out]
          /\ UNCHANGED <<pubsubs, block>>
       \/ /\ cl[c].pc = "subscribing"
          /\ \E sent \in BOOLEAN :
                pubsubs' = [pubsubs EXCEPT ![cl[c].ps].chan =
                                IF sent THEN "subscribed" ELSE "new"]
          /\ block' = None
          /\ cl' = [cl EXCEPT ![c] = Out]
       \/ /\ cl[c].pc = "streaming"
          /\ cl' = [cl EXCEPT ![c] = [pc |-> "fin_lock", ps |-> 0]]
          /\ UNCHANGED <<pubsubs, block>>
    /\ UNCHANGED <<entry, queues, bsent, bcalls, BOthers>>

\* finally: async with self._lock: clients.discard(queue); without clients
\* left _cleanup_subscription pops the entry, cancels the listener task and
\* awaits it.
finally_locked(c) ==
    /\ cl[c].pc = "fin_lock"
    /\ block = None
    /\ IF entry = 0
       THEN /\ cl' = [cl EXCEPT ![c] = Out]
            /\ UNCHANGED <<pubsubs, entry, block>>
       ELSE IF pubsubs[entry].clients \ {c} # {}
       THEN /\ pubsubs' = [pubsubs EXCEPT ![entry].clients = @ \ {c}]
            /\ cl' = [cl EXCEPT ![c] = Out]
            /\ UNCHANGED <<entry, block>>
       ELSE /\ pubsubs' = [pubsubs EXCEPT ![entry] =
                    [@ EXCEPT !.clients = {},
                               !.tcancel = (pubsubs[entry].task = "running")]]
            /\ entry' = 0
            /\ block' = c
            /\ cl' = [cl EXCEPT ![c] = [pc |-> "cleanup_task", ps |-> entry]]
    /\ UNCHANGED <<queues, bsent, bcalls, BOthers>>

\* _listener_loop: CancelledError at pubsub.listen() is caught, the task ends
listener_cancelled(p) ==
    /\ pubsubs[p].task = "running"
    /\ pubsubs[p].tcancel
    /\ pubsubs' = [pubsubs EXCEPT ![p] = [@ EXCEPT !.task = "done", !.tcancel = FALSE]]
    /\ UNCHANGED <<entry, queues, cl, block, bsent, bcalls, BOthers>>

\* _cleanup_subscription: await task returned
cleanup_task_done(c) ==
    /\ cl[c].pc = "cleanup_task"
    /\ pubsubs[cl[c].ps].task = "done"
    /\ cl' = [cl EXCEPT ![c].pc = "cleanup_close"]
    /\ UNCHANGED <<pubsubs, entry, queues, block, bsent, bcalls, BOthers>>

\* _cleanup_subscription: pubsub.unsubscribe(channel); pubsub.close(); the
\* finally block then leaves the lock and the generator ends
cleanup_close(c) ==
    /\ cl[c].pc = "cleanup_close"
    /\ pubsubs' = [pubsubs EXCEPT ![cl[c].ps].chan = "closed"]
    /\ block' = None
    /\ cl' = [cl EXCEPT ![c] = Out]
    /\ UNCHANGED <<entry, queues, bsent, bcalls, BOthers>>

QueueFullMut(q) == FALSE
\* asyncio.Queue(maxsize=5).full()
QueueFull(q) == Len(q) >= QUEUE_MAXSIZE

\* queue.put_nowait(frame_data) inside try/except asyncio.QueueFull: pass
put_nowait(q, frame) == IF QueueFull(q) THEN q ELSE Append(q, frame)

\* _listener_loop: one message of pubsub.listen() is put into the queue of
\* every client of the listener's clients set; the body has no await.  The
\* frames are numbered in the order the bus delivers them.
listener_message(p) ==
    /\ bsent < MaxBFrames
    /\ pubsubs[p].chan = "subscribed"
    /\ pubsubs[p].task = "running"
    /\ ~pubsubs[p].tcancel
    /\ bsent' = bsent + 1
    /\ queues' = [c \in BClients |->
            IF c \in pubsubs[p].clients THEN put_nowait(queues[c], bsent + 1)
            ELSE queues[c]]
    /\ UNCHANGED <<pubsubs, entry, cl, block, bcalls, BOthers>>

\* _listener_loop: pubsub.listen() raises (the connection to the bus is
\* lost): "except Exception" prints the error and the task ends.  Nothing
\* else is touched.
listener_error(p) ==
    /\ pubsubs[p].task = "running"
    /\ ~pubsubs[p].tcancel
    /\ pubsubs' = [pubsubs EXCEPT ![p].task = "done"]
    /\ UNCHANGED <<entry, queues, cl, block, bsent, bcalls, BOthers>>

InitBroadcast ==
    /\ pubsubs = <<>>
    /\ entry = 0
    /\ queues = [c \in BClients |-> <<>>]
    /\ cl = [c \in BClients |-> Out]
    /\ block = None
    /\ bsent = 0
    /\ bcalls = 0

NextBroadcast ==
    \/ \E c \in BClients : subscribe(c)
    \/ \E c \in BClients : subscribe_locked(c)
    \/ \E c \in BClients : subscribe_created(c)
    \/ \E c \in BClients : queue_get(c)
    \/ \E c \in BClients : disconnect(c)
    \/ \E c \in BClients : finally_locked(c)
    \/ \E c \in BClients : cleanup_task_done(c)
    \/ \E c \in BClients : cleanup_close(c)
    \/ \E p \in DOMAIN pubsubs : listener_cancelled(p)
    \/ \E p \in DOMAIN pubsubs : listener_message(p)

\* The broadcaster on a bus whose connection can fail.
NextListener ==
    \/ NextBroadcast
    \/ \E p \in DOMAIN pubsubs : listener_error(p)

\* ======================================================================
\* Camera configuration: _add_camera and _update_camera of
\* app/worker/camera_manager.py, for one camera of the cameras table.
\* ======================================================================
InPlaceFields == {"target_fps", "inference_width", "inference_height",
                  "confidence_threshold", "detection_mode", "zone_polygon",
                  "inference_enabled"}

\* A row of the cameras table; target_fps in frames per 10 s and
\* confidence_threshold in percent.
BaseRow ==
    [rtsp_url |-> "rtsp://a", credentials_encrypted |-> "tokenA",
     use_placeholder |-> FALSE, placeholder_video |-> "a.mp4",
     target_fps |-> 5, inference_width |-> 320, inference_height |-> 320,
     confidence_threshold |-> 50, detection_mode |-> "ppe",
     zone_polygon |-> "polyA", inference_enabled |-> TRUE]

\* The rows the API process writes: the base row with one field edited,
\* and a row with a large inference size.
CfgRows ==
    {BaseRow,
     [BaseRow EXCEPT !.rtsp_url = "rtsp://b"],
     [BaseRow EXCEPT !.credentials_encrypted = "tokenB"],
     [BaseRow EXCEPT !.use_placeholder = TRUE],
     [BaseRow EXCEPT !.placeholder_video = "b.mp4"],
     [BaseRow EXCEPT !.target_fps = 20],
     [BaseRow EXCEPT !.inference_width = 640, !.inference_height = 480],
     [BaseRow EXCEPT !.confidence_threshold = 70],
     [BaseRow EXCEPT !.detection_mode = "zone"],
     [BaseRow EXCEPT !.zone_polygon = None],
     [BaseRow EXCEPT !.zone_polygon = "polyB"],
     [BaseRow EXCEPT !.inference_enabled = FALSE]}

CfgOthers == <<now, ticks, coreVars, frameVars, eventVars, workerVars, bcVars, connVars, loopVars, qVars, srcVars, thrVars, yVars, winVars>>

\* min(db_camera.inference_width, 400)
Clamp(n) == Min(n, INFERENCE_SIZE_CAP)

\* _add_camera: CameraContext(...) with the clamped inference size, and
\* the task created for it.
NewCameraContext(r, t) ==
    [rtsp_url |-> r.rtsp_url, credentials_encrypted |-> r.credentials_encrypted,
     use_placeholder |-> r.use_placeholder, placeholder_video |-> r.placeholder_video,
     target_fps |-> r.target_fps,
     inference_width |-> Clamp(r.inference_width),
     inference_height |-> Clamp(r.inference_height),
     confidence_threshold |-> r.confidence_threshold,
     detection_mode |-> r.detection_mode, zone_polygon |-> r.zone_polygon,
     inference_enabled |-> r.inference_enabled,
     task |-> t, last_frame_time |-> 0]

\* source_changed of _update_camera
source_changed(x, r) ==
    \/ x.rtsp_url # r.rtsp_url
    \/ x.credentials_encrypted # r.credentials_encrypted
    \/ x.use_placeholder # r.use_placeholder
    \/ x.placeholder_video # r.placeholder_video

\* The else branch of _update_camera: the in-place settings.
UpdateInPlace(x, r) ==
    [x EXCEPT !.target_fps = r.target_fps,
              !.inference_width = r.inference_width,
              !.inference_height = r.inference_height,
              !.confidence_threshold = r.confidence_threshold,
              !.detection_mode = r.detection_mode,
              !.inference_enabled = r.inference_enabled,
              !.zone_polygon = IF r.zone_polygon # None THEN r.zone_polygon ELSE @]

\* The API process edits, activates or deactivates the camera's row.
row_change ==
    /\ \E d \in {<<>>} \cup {<<r>> : r \in CfgRows} : d # dbrow /\ dbrow' = d
    /\ lastpass' = <<>>
    /\ UNCHANGED <<context, spawned, CfgOthers>>

\* refresh_cameras for the camera: it is removed, added, respawned or
\* updated in place.
refresh_camera ==
    /\ dbrow # <<>> \/ context # <<>>
    /\ lastpass' = <<[row |-> dbrow, before |-> context]>>
    /\ IF dbrow = <<>>
       THEN context' = <<>> /\ UNCHANGED spawned
       ELSE IF context = <<>> \/ source_changed(context[1], dbrow[1])
       THEN /\ spawned < MaxSpawns
            /\ context' = <<NewCameraContext(dbrow[1], spawned + 1)>>
            /\ spawned' = spawned + 1
       ELSE /\ context' = <<UpdateInPlace(context[1], dbrow[1])>>
            /\ UNCHANGED spawned
    /\ UNCHANGED <<dbrow, CfgOthers>>

\* An iteration of the camera's streaming loop that read a frame:
\* context.last_frame_time = loop_start.
frame_timed ==
    /\ context # <<>>
    /\ context[1].last_frame_time = 0
    /\ context' = <<[context[1] EXCEPT !.last_frame_time = 1]>>
    /\ lastpass' = <<>>
    /\ UNCHANGED <<dbrow, spawned, CfgOthers>>

InitConfig ==
    /\ dbrow = <<>>
    /\ context = <<>>
    /\ spawned = 0
    /\ lastpass = <<>>

NextConfig ==
    \/ row_change
    \/ refresh_camera
    \/ frame_timed

\* ======================================================================
\* RTSPHandler.connect: app/worker/rtsp_handler.py
\* ======================================================================
RTSP_MAX_RETRIES == 5
RTSP_BASE_DELAY == 1
RTSP_MAX_DELAY == 60

\* The handlers the calls are made on: the default one and ones with fewer
\* attempts, a longer base delay or a short maximal delay.
Handlers ==
    {[max_retries |-> m, base_delay |-> b, max_delay |-> d] :
        m \in {0, 1, 3, RTSP_MAX_RETRIES}, b \in {RTSP_BASE_DELAY, 2},
        d \in {3, RTSP_MAX_DELAY}}

ConnOthers == <<now, ticks, coreVars, frameVars, eventVars, workerVars, bcVars, cfgVars, loopVars, qVars, srcVars, thrVars, yVars, winVars>>

IdleConn ==
    [pc |-> "idle", h |-> [max_retries |-> 0, base_delay |-> 0, max_delay |-> 0],
     attempt |-> 0,     \* the loop variable
     tried |-> 0,       \* the VideoCapture objects made so far
     read |-> FALSE,    \* the latest capture was opened and gave a frame
     waits |-> <<>>,    \* the sleeps so far, in seconds
     result |-> None]   \* "cap", "error" or nothing yet

\* min(self.base_delay * (2 ** attempt), self.max_delay)
BackoffMut(h, attempt) == h.base_delay * (2 ^ attempt)
Backoff(h, attempt) == Min(h.base_delay * (2 ^ attempt), h.max_delay)

\* connect(url, credentials_encrypted): the credentials are decrypted, or
\* that fails and the error is returned; with range(max_retries) empty the
\* error is returned as well.
rtsp_connect ==
    /\ conn.pc \in {"idle", "returned", "cancelled"}
    /\ \E h \in Handlers, decrypted \in BOOLEAN :
        conn' = IF decrypted /\ h.max_retries > 0
                THEN [IdleConn EXCEPT !.pc = "attempt", !.h = h]
                ELSE [IdleConn EXCEPT !.pc = "returned", !.h = h, !.result = "error"]
    /\ UNCHANGED ConnOthers

\* cap = cv2.VideoCapture(full_url); isOpened and the test read succeed:
\* return cap, None
rtsp_attempt_reads ==
    /\ conn.pc = "attempt"
    /\ conn' = [conn EXCEPT !.pc = "returned", !.tried = @ + 1, !.read = TRUE,
                            !.result = "cap"]
    /\ UNCHANGED ConnOthers

\* The capture does not open, gives no frame or raises: the delay is
\* computed and slept unless this was the last attempt, after which the
\* loop ends and the error is returned.
rtsp_attempt_fails ==
    /\ conn.pc = "attempt"
    /\ conn' =
        IF conn.attempt < conn.h.max_retries - 1
        THEN [conn EXCEPT !.pc = "sleep", !.tried = @ + 1,
                          !.waits = Append(@, Backoff(conn.h, conn.attempt))]
        ELSE [conn EXCEPT !.pc = "returned", !.tried = @ + 1, !.result = "error"]
    /\ UNCHANGED ConnOthers

\* await asyncio.sleep(delay) returns: the next round of the loop
rtsp_sleep_done ==
    /\ conn.pc = "sleep"
    /\ conn' = [conn EXCEPT !.pc = "attempt", !.attempt = @ + 1]
    /\ UNCHANGED ConnOthers

\* The calling task is cancelled in the sleep: CancelledError leaves connect.
rtsp_sleep_cancelled ==
    /\ conn.pc = "sleep"
    /\ conn' = [conn EXCEPT !.pc = "cancelled"]
    /\ UNCHANGED ConnOthers

InitConnect == conn = IdleConn

NextConnect ==
    \/ rtsp_connect
    \/ rtsp_attempt_reads
    \/ rtsp_attempt_fails
    \/ rtsp_sleep_done
    \/ rtsp_sleep_cancelled

\* ======================================================================
\* The dispatch decision of the streaming loop: _process_camera,
\* app/worker/camera_manager.py lines 359-370.  Times are in milliseconds
\* and target_fps in tenths of a frame per second.
\* ======================================================================
\* loop_start - context.last_infer_time
Elapsed == {0, 199, 200, 1999, 2000, 2001, 9999, 10000, 10001}
\* context.target_fps: 0.1, 0.5 and 5.0 of the API's range, and 0
TargetFps == {0, 1, 5, 50}

LoopOthers == <<now, ticks, coreVars, frameVars, eventVars, workerVars, bcVars, cfgVars, connVars, qVars, srcVars, thrVars, yVars, winVars>>

\* should_infer = (loop_start - last_infer_time) >= 1.0 / max(target_fps, 0.1)
should_inferMut(elapsed, fps) == elapsed * Max(fps, 1) > 10000
should_infer(elapsed, fps) == elapsed * Max(fps, 1) >= 10000

\* if should_infer and not context.infer_in_flight and context.inference_enabled
Dispatches(x) ==
    should_infer(x.elapsed, x.target_fps) /\ ~x.infer_in_flight /\ x.inference_enabled

\* detections = context.last_detections if context.inference_enabled else []
AnnotatorDetections(x) == IF x.inference_enabled THEN x.last_detections ELSE <<>>

IdleIteration ==
    [pc |-> "idle", elapsed |-> 0, target_fps |-> 0, infer_in_flight |-> FALSE,
     inference_enabled |-> FALSE, last_detections |-> <<>>,
     dispatched |-> FALSE,  \* create_task(_run_inference) was called
     marker |-> FALSE,      \* context.infer_in_flight after the decision
     annotated |-> <<>>]    \* the detections given to annotate_frame

\* An iteration has read a frame: the context as the iteration finds it.
iteration_begins ==
    /\ iteration.pc \in {"idle", "annotated"}
    /\ \E e \in Elapsed, f \in TargetFps, fl \in BOOLEAN, en \in BOOLEAN,
          ld \in {<<>>, <<"person">>} :
        iteration' = [IdleIteration EXCEPT !.pc = "read", !.elapsed = e,
                        !.target_fps = f, !.infer_in_flight = fl,
                        !.inference_enabled = en, !.last_detections = ld]
    /\ UNCHANGED LoopOthers

\* The iteration from the resize to annotate_frame: the job is dispatched
\* or not, and the annotator gets its detections.
iteration_decides ==
    /\ iteration.pc = "read"
    /\ iteration' = [iteration EXCEPT
            !.pc = "annotated",
            !.dispatched = Dispatches(iteration),
            !.marker = iteration.infer_in_flight \/ Dispatches(iteration),
            !.annotated = AnnotatorDetections(iteration)]
    /\ UNCHANGED LoopOthers

InitLoop == iteration = IdleIteration

NextLoop ==
    \/ iteration_begins
    \/ iteration_decides

\* ======================================================================
\* Grid quantization: ViolationDeduplicator.quantize_bbox,
\* app/core/deduplication.py lines 47-64, called on boxes of every position.
\* ======================================================================
\* Centres of the boxes along x and along y: left of and above the frame,
\* on and next to the cell borders of a 640 x 480 frame, on the right and
\* bottom edge and beyond it.
CentresX == {-700, -220, -100, 0, 100, 213, 214, 426, 427, 639, 640, 900}
CentresY == {-500, -170, -80, 0, 159, 160, 319, 320, 479, 480, 700}
QFrames == {<<640, 480>>, <<400, 400>>}
\* The box of half-width 10 around a centre.
BoxAround(cx, cy) == <<cx - 10, cy - 10, cx + 10, cy + 10>>

QOthers == <<now, ticks, coreVars, frameVars, eventVars, workerVars, bcVars, cfgVars, connVars, loopVars, srcVars, thrVars, yVars, winVars>>

\* One call of quantize_bbox(bbox, frame_size).
quantize ==
    /\ \E cx \in CentresX, cy \in CentresY, f \in QFrames :
        cell' = <<[bbox |-> BoxAround(cx, cy), frame_size |-> f,
                   region |-> quantize_bbox(BoxAround(cx, cy), f)]>>
    /\ UNCHANGED QOthers

InitQuantize == cell = <<>>

NextQuantize == quantize

\* ======================================================================
\* Source resolution: _connect_camera and _try_default_demo_fallback,
\* app/worker/camera_manager.py lines 478-544.
\* ======================================================================
\* The fields of the context that _connect_camera reads; rtsp_url and
\* placeholder_video are either set or empty.
SourceContexts ==
    [use_placeholder : BOOLEAN, placeholder_video : BOOLEAN,
     source_type : {"rtsp", "file"}, rtsp_url : BOOLEAN]
\* What the outside world allows: open_file(placeholder_video) succeeds,
\* rtsp_handler.connect succeeds, and the default demo video is unset,
\* fails to open or opens.
Worlds ==
    [placeholder_opens : BOOLEAN, rtsp_connects : BOOLEAN,
     demo : {"unset", "fails", "opens"}]

SrcOthers == <<now, ticks, coreVars, frameVars, eventVars, workerVars, bcVars, cfgVars, connVars, loopVars, qVars, thrVars, yVars, winVars>>

\* _try_default_demo_fallback: the demo video if it is configured and
\* opens, else the test pattern.
_try_default_demo_fallback(w) ==
    IF w.demo = "opens" THEN "demo" ELSE "test_pattern"

\* The branch of _connect_camera after a failed RTSP connect.
AfterRtspFailureMut(c, w) == _try_default_demo_fallback(w)
AfterRtspFailure(c, w) ==
    IF c.placeholder_video /\ w.placeholder_opens
    THEN "placeholder"
    ELSE _try_default_demo_fallback(w)

\* _connect_camera: the source of the capture it returns.
_connect_camera(c, w) ==
    IF c.use_placeholder /\ c.placeholder_video
    THEN IF w.placeholder_opens THEN "placeholder"
         ELSE _try_default_demo_fallback(w)
    ELSE IF c.source_type = "rtsp" /\ c.rtsp_url
    THEN IF w.rtsp_connects THEN "rtsp" ELSE AfterRtspFailure(c, w)
    ELSE IF c.source_type = "file" /\ c.placeholder_video
    THEN IF w.placeholder_opens THEN "placeholder"
         ELSE _try_default_demo_fallback(w)
    ELSE _try_default_demo_fallback(w)

\* One call of _connect_camera(context).
connect_camera ==
    /\ \E c \in SourceContexts, w \in Worlds :
        resolved' = <<[context |-> c, world |-> w, source |-> _connect_camera(c, w)]>>
    /\ UNCHANGED SrcOthers

InitSource == resolved = <<>>

NextSource == connect_camera

\* ======================================================================
\* The core deduplicator under several threads:
\* EventProcessor._try_create_violation, app/core/event_processor.py lines
\* 165-199, run by two threads on one ViolationDeduplicator.  The lock of
\* the deduplicator is held inside should_create_event and inside
\* register_event, and released between the two calls.
\* ======================================================================
Threads == {"t1", "t2"}

ThrOthers == <<now, ticks, hist, lastOp, calls, frameVars, eventVars, workerVars, bcVars, cfgVars, connVars, loopVars, qVars, srcVars, yVars, winVars>>

IdleThread == [pc |-> "idle", d |-> None, res |-> FALSE, at |-> 0]

\* should_create, sig_hash = self._deduplicator.should_create_event(...);
\* if not should_create: return None
try_create_checks(t) ==
    /\ thr[t].pc = "idle"
    /\ \E c \in CoreCameras, k \in CoreClasses, b \in CoreBoxes :
        LET d == SigHash(c, k, quantize_bbox(b, CoreFrame)) IN
        /\ recent' = AfterShouldCreate(d, now)
        /\ thr' = [thr EXCEPT ![t] =
                [pc |-> IF ShouldCreate(d, now) THEN "create" ELSE "idle",
                 d |-> d, res |-> ShouldCreate(d, now), at |-> now]]
    /\ UNCHANGED ThrOthers

\* The event is built and its thumbnail saved; then
\* self._deduplicator.register_event(sig_hash, event.id), and the rest of
\* the call, which does not touch the deduplicator.
try_create_registers(t) ==
    /\ thr[t].pc = "create"
    /\ recent' = PutEntry(recent, thr[t].d, [last_seen |-> now, event_id |-> t])
    /\ thr' = [thr EXCEPT ![t].pc = "idle"]
    /\ UNCHANGED ThrOthers

TickThreads ==
    /\ ticks < MaxTicks
    /\ now' = now + COOLDOWN_SECONDS \div 2
    /\ ticks' = ticks + 1
    /\ UNCHANGED <<coreVars, frameVars, eventVars, workerVars, bcVars, cfgVars, connVars, loopVars, qVars, srcVars, thrVars, yVars, winVars>>

InitThreads == thr = [t \in Threads |-> IdleThread]

NextThreads ==
    \/ \E t \in Threads : try_create_checks(t)
    \/ \E t \in Threads : try_create_registers(t)
    \/ TickThreads

\* ======================================================================
\* What one viewer is sent: SharedFrameBroadcaster.subscribe (lines
\* 201-255) and _listener_loop (257-287) against FramePublisher.publish_frame
\* (71-98) of app/shared/redis/pubsub.py.  The publisher numbers its frames
\* 1, 2, ...: publish_frame(n) writes n to latest_frame and then publishes n
\* on the channel, from where the listener receives it later.
\* ======================================================================
YOthers == <<now, ticks, coreVars, frameVars, eventVars, workerVars, bcVars, cfgVars, connVars, loopVars, qVars, srcVars, thrVars, winVars>>

OutViewer == [pc |-> "out", queue |-> <<>>, yielded |-> <<>>]

\* publish_frame: await self.client.set(latest_key, frame_data, ex=10); the
\* publish of the frame before has been sent.
frame_set ==
    /\ wire.set < MaxFrames
    /\ wire' = [wire EXCEPT !.set = @ + 1]
    /\ UNCHANGED <<viewer, YOthers>>

\* publish_frame: self.client.publish(channel, frame_data) has reached the
\* listener: _listener_loop puts the frame into the queue of every client.
frame_received ==
    /\ wire.received < wire.set
    /\ wire' = [wire EXCEPT !.received = @ + 1]
    /\ viewer' = IF viewer.pc = "out" THEN viewer
                 ELSE [viewer EXCEPT !.queue = put_nowait(@, wire.received + 1)]
    /\ UNCHANGED YOthers

\* subscribe(): the queue is made and, under the lock, added to the clients
\* of the camera's subscription.
viewer_subscribes ==
    /\ viewer.pc = "out"
    /\ viewer.yielded = <<>>
    /\ viewer' = [viewer EXCEPT !.pc = "get_latest"]
    /\ UNCHANGED <<wire, YOthers>>

\* latest = await self.get_latest_frame(camera_id); if latest: yield latest
viewer_gets_latest ==
    /\ viewer.pc = "get_latest"
    /\ viewer' = [viewer EXCEPT
            !.pc = "streaming",
            !.yielded = IF wire.set > 0 THEN Append(@, wire.set) ELSE @]
    /\ UNCHANGED <<wire, YOthers>>

\* frame = await asyncio.wait_for(queue.get(), timeout=5.0); yield frame
viewer_gets_queued ==
    /\ viewer.pc = "streaming"
    /\ viewer.queue # <<>>
    /\ viewer' = [viewer EXCEPT !.queue = Tail(@),
                                !.yielded = Append(@, Head(viewer.queue))]
    /\ UNCHANGED <<wire, YOthers>>

InitViewer ==
    /\ wire = [set |-> 0, received |-> 0]
    /\ viewer = OutViewer

NextViewer ==
    \/ frame_set
    \/ frame_received
    \/ viewer_subscribes
    \/ viewer_gets_latest
    \/ viewer_gets_queued

\* ======================================================================
\* The cooldown window of ViolationDeduplicator: should_create_event and
\* register_event of app/core/deduplication.py, lines 66-102, followed
\* along the sightings of each signature since its latest registration.
\* ======================================================================
WinOthers == <<now, ticks, hist, lastOp, calls, frameVars, eventVars, workerVars, bcVars, cfgVars, connVars, loopVars, qVars, srcVars, thrVars, yVars>>

\* No registration yet, or a sighting came a cooldown or more after the
\* sighting before it.
NoChain == [on |-> FALSE, registered |-> 0, latest |-> 0, n |-> 0, suppressed |-> TRUE]

\* register_event(sig_hash, event_id): the entry is written with now.
window_register ==
    /\ \E d \in CoreDigests :
        /\ recent' = PutEntry(recent, d, [last_seen |-> now, event_id |-> "e1"])
        /\ chain' = [chain EXCEPT ![d] =
                [on |-> TRUE, registered |-> now, latest |-> now, n |-> 0,
                 suppressed |-> TRUE]]
    /\ UNCHANGED WinOthers

\* should_create_event for a sighting of signature d.
window_sighting ==
    /\ \E d \in CoreDigests :
        /\ recent' = AfterShouldCreate(d, now)
        /\ chain' = [chain EXCEPT ![d] =
                IF @.on /\ now - @.latest < COOLDOWN_SECONDS
                THEN [@ EXCEPT !.latest = now, !.n = Min(@ + 1, MaxCalls),
                               !.suppressed = @ /\ ~ShouldCreate(d, now)]
                ELSE NoChain]
    /\ UNCHANGED WinOthers

\* cleanup_stale() with its default max_age_seconds.
window_cleanup ==
    /\ StaleKeys(recent, now - STALE_SECONDS) # {}
    /\ recent' = [k \in DOMAIN recent \ StaleKeys(recent, now - STALE_SECONDS) |-> recent[k]]
    /\ UNCHANGED <<chain, WinOthers>>

\* The clock advances by half a cooldown or by more than the stale threshold.
TickWindow ==
    /\ ticks < MaxTicks
    /\ \E d \in {COOLDOWN_SECONDS \div 2, STALE_SECONDS + COOLDOWN_SECONDS} : now' = now + d
    /\ ticks' = ticks + 1
    /\ UNCHANGED <<coreVars, frameVars, eventVars, workerVars, bcVars, cfgVars, connVars, loopVars, qVars, srcVars, thrVars, yVars, winVars>>

InitWindow == chain = [d \in CoreDigests |-> NoChain]

NextWindow ==
    \/ window_register
    \/ window_sighting
    \/ window_cleanup
    \/ TickWindow

Init ==
    /\ now = StartTime
    /\ ticks = 0
    /\ InitCore
    /\ InitFrames
    /\ InitEvents
    /\ InitWorker
    /\ InitBroadcast
    /\ InitConfig
    /\ InitConnect
    /\ InitLoop
    /\ InitQuantize
    /\ InitSource
    /\ InitThreads
    /\ InitViewer
    /\ InitWindow

SpecCore == Init /\ [][NextCore]_vars
SpecFrames == Init /\ [][NextFrames]_vars
SpecEvents == Init /\ [][NextEvents]_vars
SpecOrg == Init /\ [][NextOrg]_vars
\* The running worker: every step that can be taken is eventually taken.
SpecPurge == Init /\ [][NextPurge]_vars /\ WF_vars(NextPurge)
Spec == Init /\ [][Next]_vars
SpecStore == Init /\ [][NextStore]_vars
SpecBroadcast == Init /\ [][NextBroadcast]_vars
SpecListener == Init /\ [][NextListener]_vars
SpecConfig == Init /\ [][NextConfig]_vars
SpecConnect == Init /\ [][NextConnect]_vars
SpecLoop == Init /\ [][NextLoop]_vars
SpecQuantize == Init /\ [][NextQuantize]_vars
SpecSource == Init /\ [][NextSource]_vars
SpecThreads == Init /\ [][NextThreads]_vars
SpecViewer == Init /\ [][NextViewer]_vars
SpecWindow == Init /\ [][NextWindow]_vars

\* ---------------------------------------------------------------- claims

\* C6: for a signature with no live entry, should_emit, then register with the
\* returned digest, then should_emit for the same signature less than a
\* cooldown after the first call return (true, d) and then (false, d), with
\* the same digest d.
C6_IdempotentDedup ==
    (/\ Len(hist) = 3
     /\ hist[1].op = "should" /\ ~hist[1].live
     /\ hist[2].op = "register" /\ hist[2].d = hist[1].d
     /\ hist[3].op = "should" /\ hist[3].d = hist[1].d
     /\ hist[3].t - hist[1].t < COOLDOWN_SECONDS)
    => (hist[1].res = TRUE /\ hist[3].res = FALSE)

C6_Witness ==
    /\ Len(hist) = 3
    /\ hist[1].op = "should" /\ ~hist[1].live /\ hist[1].res = TRUE
    /\ hist[2].op = "register" /\ hist[2].d = hist[1].d
    /\ hist[3].op = "should" /\ hist[3].d = hist[1].d /\ hist[3].res = FALSE
    /\ hist[3].t > hist[1].t
    /\ hist[3].t - hist[1].t < COOLDOWN_SECONDS

\* C7: right after cleanup_stale(T) no entry with last_seen + T < now is left,
\* and every entry not older than T is still there, unchanged.
C7_CleanupMonotone ==
    [][(calls' # calls /\ lastOp'.op = "cleanup") =>
        LET T == lastOp'.age IN
        /\ \A d \in DOMAIN recent' : ~(recent'[d].last_seen + T < now)
        /\ \A d \in DOMAIN recent :
              ~(recent[d].last_seen + T < now) =>
                  (d \in DOMAIN recent' /\ recent'[d] = recent[d])]_vars

C7_Witness ==
    /\ lastOp.op = "cleanup"
    /\ recent # <<>>
    /\ \E d \in CoreDigests : d \notin DOMAIN recent
Count(seq, x) == Cardinality({i \in 1..Len(seq) : seq[i] = x})

\* C8: every frame published on a camera's frames topic is accompanied by a
\* write of the same bytes to that camera's latest_frame register with a TTL
\* of 10 s: per camera and payload there are at least as many such writes as
\* publishes.
C8_FrameHasLatestWrite ==
    \A c \in FrameCameras, b \in FrameData :
        Count(topic[c], b) <= Count(setLog[c], [data |-> b, ex |-> 10])

C8_Witness ==
    \E c \in FrameCameras :
        /\ Len(topic[c]) >= 2
        /\ topic[c][1] # topic[c][2]
        /\ get_latest_frame(c) = topic[c][1]

\* C3: no event message is published on the bus for an event that was not
\* inserted into the Store first.
C3_InsertBeforePublish ==
    \A o \in Orgs : \A i \in 1..Len(bus[o]) : \E e \in store : e.id = bus[o][i]

C3_Witness ==
    \E o \in Orgs : Len(bus[o]) >= 1 /\ \E e \in store : e.id = bus[o][1]

\* An event's cell in the G x G grid over the inference frame.
GridCell(e) == quantize_bbox(e.box, EvFrame)

\* C2: per camera, violation kind and cell of the 3 x 3 grid, two
\* materialized events are never less than a cooldown apart.
C2_OnePerGridCell ==
    \A e1 \in store, e2 \in store :
        (e1.id # e2.id /\ e1.cam = e2.cam /\ e1.kind = e2.kind
            /\ GridCell(e1) = GridCell(e2))
        => (e1.t - e2.t >= COOLDOWN_SECONDS \/ e2.t - e1.t >= COOLDOWN_SECONDS)

\* C4: a dedup entry is never written before the insert of the
\* event it refers to, so every entry has its event in the Store.
C4_RegisterAfterInsert ==
    \A c \in DOMAIN trackers : \A key \in DOMAIN trackers[c] :
        \E e \in store :
            e.cam = c /\ violation_key(e.kind, e.box) = key /\ e.t = trackers[c][key]

\* C5: after a failed insert the deduplicator holds no entry for
\* the signature, so a matching detection is admitted again at once.
C5_RetryAfterFailedInsert ==
    \A f \in failed :
        ShouldEmit(_get_tracker(f.cam), violation_key(f.kind, f.box), now)
\* The inference tasks of camera c that have been created and have not ended.
InferenceTasks(c) ==
    {i \in CtxIds : ctxs[i].cam = c /\ (InferLive(ctxs[i]) \/ ctxs[i].lost > 0)}

\* C1: for every camera at most one inference task is in flight, in the
\* contexts the manager holds and in those it has stopped; a context with an
\* inference task in flight has infer_in_flight set and no second task.
C1_OneInferenceInFlight ==
    \A c \in WCameras :
        /\ Cardinality(InferenceTasks(c)) <= 1
        /\ \A i \in InferenceTasks(c) :
            ctxs[i].infer_in_flight /\ ctxs[i].lost = 0

C1_Witness ==
    \E i \in CtxIds, j \in CtxIds :
        /\ j < i
        /\ ctxs[j].cam = ctxs[i].cam
        /\ ctxs[j].state = "stopped"
        /\ ctxs[i].itask = "predict"
        /\ cameras[ctxs[i].cam] = i

\* C9: a camera whose state is streaming has read at least one frame since
\* its state last became connecting.
C9_StreamingHasReadFrame ==
    \A i \in CtxIds : ctxs[i].state = "streaming" => ctxs[i].read_ok

\* C10: when a refresh pass completes, the cameras the manager holds are
\* the active cameras read from the table in that pass.
C10_RefreshRoundTrip ==
    rp.pc = "complete" => Keys = ActiveIds(rp.snap)

C10_Witness ==
    /\ rp.pc = "complete"
    /\ rp.cur \ ActiveIds(rp.snap) # {}
    /\ ActiveIds(rp.snap) \ rp.cur # {}
    /\ \E i \in CtxIds : ctxs[i].state = "stopped"

\* C17: for any interleaving of subscribes and disconnects the camera has at
\* most one open bus subscription and one listener task, a registered client
\* has the subscription and its listener, and with every client gone no
\* subscription and no listener is left.
C17_OneSharedSubscription ==
    /\ Cardinality(OpenSubscriptions) <= 1
    /\ Cardinality(LiveListeners) <= 1
    /\ \A c \in BClients :
          cl[c].pc = "streaming" =>
              /\ entry # 0
              /\ c \in pubsubs[entry].clients
              /\ entry \in OpenSubscriptions \cap LiveListeners
    /\ (\A c \in BClients : cl[c].pc = "out") =>
          (OpenSubscriptions = {} /\ LiveListeners = {})

\* C18: a client queue never holds more than 5 frames, and a message of the
\* listener is appended, in the one step that handles it, to the queue of
\* every registered client whose queue is not full and changes no other queue.
C18_BoundedQueues ==
    /\ [](\A c \in BClients : Len(queues[c]) <= 5)
    /\ [][bsent' # bsent =>
            \A c \in BClients :
                queues'[c] =
                    IF c \in pubsubs[entry].clients /\ Len(queues[c]) < 5
                    THEN Append(queues[c], bsent')
                    ELSE queues[c]]_vars

C18_Witness ==
    \E c \in BClients, d \in BClients :
        /\ cl[c].pc = "streaming" /\ cl[d].pc = "streaming"
        /\ queues[c] = <<1, 2, 3, 4, 5>>
        /\ bsent = 6
        /\ queues[d] # <<>> /\ queues[d][Len(queues[d])] = 6

\* The cameras the refresh pass in progress found in the runtime and not in
\* its snapshot of the Store.
RemovedInPass == RemovedIds(rp.cur, ActiveIds(rp.snap))

\* The context made last for camera c.
LastCtxOf(c) ==
    CHOOSE i \in CtxIds :
        ctxs[i].cam = c /\ \A j \in CtxIds : ctxs[j].cam = c => j <= i

\* Worker task ended, no inference task left, source handle released.
Stopped(x) ==
    x.task = "done" /\ ~InferLive(x) /\ x.lost = 0 /\ ~x.cap

\* C11 as stated: when a refresh pass completes, every camera that was
\* streaming when the pass removed it has its worker task and inference task
\* ended, its handle released, and offline as its status in the Store.
C11_OfflineStored ==
    rp.pc = "complete" =>
        \A c \in rp.gone :
            /\ cameras[c] = 0
            /\ Stopped(ctxs[LastCtxOf(c)])
            /\ status[c].stored = "offline"

\* C11 amended: when a refresh pass completes, every camera the pass removed
\* has no runtime entry, its worker task and inference task have ended, its
\* handle is released, offline is the last status a write was attempted with
\* for it, and offline is its status in the Store if that write was stored.
C11_StoppedByPass ==
    rp.pc = "complete" =>
        \A c \in RemovedInPass :
            /\ cameras[c] = 0
            /\ Stopped(ctxs[LastCtxOf(c)])
            /\ status[c].last = "offline"
            /\ status[c].ok => status[c].stored = "offline"

C11_Witness ==
    /\ rp.pc = "complete"
    /\ \E c \in rp.gone :
        /\ c \in RemovedInPass
        /\ Stopped(ctxs[LastCtxOf(c)])
        /\ status[c] = [stored |-> "online", last |-> "offline", ok |-> FALSE]

\* C12: when the predictor raises in an inference job, the camera is in
\* streaming and stays there with its worker task where it was,
\* last_detections is unchanged and the in-flight marker is cleared; and the
\* marker is cleared whenever a job ends, however it ends.
C12_PredictorErrorIsolated ==
    [][\A i \in CtxIds :
        /\ (/\ ctxs[i].itask = "predict" /\ ~ctxs[i].icancel
            /\ ctxs' = [ctxs EXCEPT ![i] = InferRaised(@)]) =>
              /\ ctxs[i].state = "streaming" /\ ctxs'[i].state = "streaming"
              /\ ctxs'[i].task = ctxs[i].task
              /\ ctxs'[i].last_detections = ctxs[i].last_detections
              /\ ~ctxs'[i].infer_in_flight
        /\ (ctxs[i].itask \in {"predict", "events"} /\ ctxs'[i].itask = "done") =>
              ~ctxs'[i].infer_in_flight]_vars

\* C13: a publish the bus rejects, of an event whose row is in the Store, is
\* tried a second time: after one rejection the job is still at the publish
\* of that event, so it leaves that step after a single attempt only with the
\* event on the organization's topic; and no event is on the topic twice.
C13_PublishRetried ==
    /\ [][\A c \in EvCameras :
            (job[c].pc = "publish" /\ job'[c].pc # "publish") =>
                \E k \in 1..Len(bus'[OrgOf(c)]) : bus'[OrgOf(c)][k] = job[c].cur.id]_vars
    /\ [](\A o \in Orgs : \A k \in 1..Len(bus[o]), m \in 1..Len(bus[o]) :
            bus[o][k] = bus[o][m] => k = m)

\* Camera d admitted, less than a cooldown ago, a violation with key k: the
\* event of the admission is in the Store, or its insert failed.
RecentlyAdmitted(d, k) ==
    \/ \E e \in store :
        e.cam = d /\ violation_key(e.kind, e.box) = k /\ now - e.t < COOLDOWN_SECONDS
    \/ \E f \in failed :
        f.cam = d /\ violation_key(f.kind, f.box) = k /\ now - f.t < COOLDOWN_SECONDS

\* C14: whether a violation of a camera is emitted depends on the earlier
\* admissions of that camera alone: it is emitted exactly when the camera
\* itself admitted no violation of the same kind and cell during the last
\* cooldown, whatever the other camera of the organization emitted or
\* suppressed, so that two cameras seeing the same violation at the same
\* time both emit.
C14_IndependentDedup ==
    [][\A d \in OrgCameras :
        (job[d].pc = "loop" /\ job[d].todo # <<>> /\ job'[d] # job[d])
        => LET v == Head(job[d].todo)
           IN  (job'[d].step = 1)
                    <=> ~RecentlyAdmitted(d, violation_key(v.kind, v.box))]_vars

C14_Witness ==
    \E e1 \in store, e2 \in store :
        /\ e1.cam # e2.cam
        /\ e1.kind = e2.kind /\ e1.box = e2.box /\ e1.t = e2.t
        /\ \E i, j \in 1..Len(bus[OrgOf(e1.cam)]) :
            bus[OrgOf(e1.cam)][i] = e1.id /\ bus[OrgOf(e1.cam)][j] = e2.id

\* C16: per organization the event messages are on the event topic in the
\* order in which the inserts of their events succeeded in the Store.
C16_PublishedInStoreOrder ==
    \A o \in Orgs : \A i, j \in 1..Len(bus[o]) :
        i < j => \A e1 \in store, e2 \in store :
            (e1.id = bus[o][i] /\ e2.id = bus[o][j]) => e1.ord < e2.ord

\* The changes of CameraContext.state the claim allows.
AllowedTransitions ==
    {<<"idle", "connecting">>, <<"connecting", "streaming">>,
     <<"connecting", "error">>, <<"streaming", "connecting">>,
     <<"streaming", "error">>}
        \cup {<<s, "stopped">> : s \in {"idle", "connecting", "streaming", "error"}}

\* C20: every change of a context's state is an allowed transition, and a
\* stopped context stays stopped whatever its tasks do afterwards.
C20_AllowedTransitions ==
    [][\A i \in DOMAIN ctxs :
        /\ ctxs'[i].state # ctxs[i].state
            => <<ctxs[i].state, ctxs'[i].state>> \in AllowedTransitions
        /\ ctxs[i].state = "stopped" => ctxs'[i].state = "stopped"]_vars

\* A stopped context whose worker task was cancelled inside an await and
\* has not yet run its handler.
C20_Witness ==
    \E i \in DOMAIN ctxs :
        /\ ctxs[i].state = "stopped"
        /\ ctxs[i].tcancel
        /\ ctxs[i].task \in TaskAwaits

\* C19: when stop has closed the bus handles the manager holds no camera,
\* no worker task and no inference task is alive and every capture is
\* released.
C19_StopLeavesNothing ==
    sp.pc = "closed" =>
        /\ Keys = {}
        /\ \A i \in CtxIds :
            /\ ctxs[i].task = "done"
            /\ ~InferLive(ctxs[i]) /\ ctxs[i].lost = 0
            /\ ~ctxs[i].cap

C21_DecryptFailureIsError ==
    [][\A i \in CtxIds :
        (/\ ctxs[i].task = "st_connecting" /\ IsRtsp(ctxs[i].src)
         /\ ctxs' = [ctxs EXCEPT ![i] = DecryptFailed(@)])
        => /\ ctxs'[i].state = "error"
           /\ ctxs'[i].task \in {"st_error", "done"}]_vars

\* C22: an iteration of the streaming loop whose read returns no frame
\* releases the capture and puts the camera in connecting, in the Store
\* too, before the reconnection is attempted.
C22_ReadFailureReentersConnecting ==
    [][\A i \in CtxIds :
        (ctxs[i].task = "loop" /\ ctxs'[i].task = "re_sleep")
        => /\ ~ctxs'[i].cap
           /\ ctxs'[i].state = "connecting"
           /\ status'[ctxs[i].cam].last = "connecting"]_vars

\* C23: a refresh pass that finds the camera both in self.cameras and
\* active in the table respawns it (new context, new task) exactly when a
\* source field differs from the row; otherwise the task and the counters
\* of the context are as before and every in-place field has the row's
\* value.
C23_RespawnOrUpdateInPlace ==
    (lastpass # <<>> /\ lastpass[1].row # <<>> /\ lastpass[1].before # <<>>) =>
        LET r == lastpass[1].row[1]
            x == lastpass[1].before[1]
        IN  /\ (context[1].task # x.task) <=> source_changed(x, r)
            /\ ~source_changed(x, r) =>
                /\ context[1].task = x.task
                /\ context[1].last_frame_time = x.last_frame_time
                /\ \A f \in InPlaceFields : context[1][f] = r[f]

\* C24: the inference size of a camera context is never above 400 x 400,
\* whatever the table holds and whichever adds and in-place updates ran.
C24_InferenceSizeClamped ==
    context # <<>> =>
        /\ context[1].inference_width <= INFERENCE_SIZE_CAP
        /\ context[1].inference_height <= INFERENCE_SIZE_CAP

\* C25: connect makes at most max_retries attempts; the k-th wait follows
\* failed attempt k - 1 and lasts min(base_delay * 2^(k-1), max_delay);
\* a capture is returned only after a frame was read from it; and the error
\* after the last failed attempt is returned with one wait fewer than
\* attempts, that is without a further wait.
C25_BoundedBackoff ==
    /\ conn.tried <= conn.h.max_retries
    /\ \A k \in 1..Len(conn.waits) :
        conn.waits[k] =
            Min(conn.h.base_delay * (2 ^ (k - 1)), conn.h.max_delay)
    /\ conn.pc = "sleep" =>
        Len(conn.waits) = conn.tried /\ conn.tried < conn.h.max_retries
    /\ conn.pc = "attempt" => Len(conn.waits) = conn.tried
    /\ conn.result = "cap" => conn.read /\ Len(conn.waits) = conn.tried - 1
    /\ (conn.result = "error" /\ conn.tried > 0) =>
        /\ conn.tried = conn.h.max_retries
        /\ Len(conn.waits) = conn.tried - 1

\* The default number of attempts all failed, with a wait cut to max_delay.
C25_Witness ==
    /\ conn.result = "error"
    /\ conn.tried = RTSP_MAX_RETRIES
    /\ \E k \in 1..Len(conn.waits) :
        conn.waits[k] = conn.h.max_delay
            /\ conn.h.base_delay * (2 ^ (k - 1)) > conn.h.max_delay

C27_MetadataWithFrame ==
    (\A k \in Callers : fcall[k].pc = "idle") =>
        \A c \in FrameCameras :
            /\ Len(metaLog[c]) >= Len(topic[c])
            /\ \A n \in 1..Len(metaLog[c]) : metaLog[c][n] = CAMERA_META_TTL

\* C28: a should_emit that returns true leaves the dedup map as it was;
\* one that returns false changes nothing but the time of the entry of
\* the signature asked about, which becomes now.
C28_ShouldEmitFrame ==
    [][\A c \in OrgCameras :
        (job[c].pc = "loop" /\ job[c].todo # <<>> /\ job'[c] # job[c]) =>
            LET v == Head(job[c].todo)
                key == violation_key(v.kind, v.box)
            IN  IF job'[c].step = 1
                THEN trackers' = trackers
                ELSE trackers' = [trackers EXCEPT ![TrackerKey(c)][key] = now]]_vars

\* The keys the tracker of a camera can hold.
TrackerKeys ==
    {violation_key(kind, box) : kind \in {"no_hardhat", "no_vest", "zone"},
                                box \in EvBoxes}
\* The entry of key k in the tracker of camera c is older than the stale
\* threshold.
StaleEntry(c, k) ==
    /\ TrackerKey(c) \in DOMAIN trackers
    /\ k \in DOMAIN trackers[TrackerKey(c)]
    /\ now - trackers[TrackerKey(c)][k] > STALE_SECONDS

\* C29: a dedup entry older than the stale threshold does not stay in the
\* tracker forever: it is eventually purged (or sighted again, which makes
\* it young).
C29_StaleEntriesPurged ==
    \A c \in EvCameras : \A k \in TrackerKeys :
        StaleEntry(c, k) ~> ~StaleEntry(c, k)

\* C30: every stored event is high for no_hardhat, medium for no_vest and
\* critical for a zone breach, and critical whatever its kind when its
\* confidence is above 0.8 (80 percent).
C30_SeverityOfEvents ==
    \A e \in store :
        e.sev = IF e.conf > 80 THEN "critical"
                ELSE CASE e.kind = "no_hardhat" -> "high"
                       [] e.kind = "no_vest" -> "medium"
                       [] e.kind = "zone" -> "critical"

\* C31: the cell quantize_bbox returns lies in the grid for every box and
\* frame size: 0 <= row < G and 0 <= col < G, wherever the centre of the box
\* is: inside the frame, on or beyond its right or bottom edge, left of it
\* or above it.
C31_CellInGrid ==
    \A q \in {cell[i] : i \in DOMAIN cell} :
        /\ 0 <= q.region[1] /\ q.region[1] < GRID_SIZE
        /\ 0 <= q.region[2] /\ q.region[2] < GRID_SIZE

\* The one source the list of the claim selects for a context: the first of
\* (1) the placeholder video when use_placeholder is set and a placeholder
\* is configured, (2) the RTSP stream when the kind is rtsp and a URL is
\* set, (3) the placeholder video when the kind is file and a placeholder
\* is configured.
ListedSource(c) ==
    IF c.use_placeholder /\ c.placeholder_video THEN "placeholder"
    ELSE IF c.source_type = "rtsp" /\ c.rtsp_url THEN "rtsp"
    ELSE IF c.source_type = "file" /\ c.placeholder_video THEN "placeholder"
    ELSE "nothing"
\* A source can be opened.
Opens(s, w) ==
    CASE s = "placeholder" -> w.placeholder_opens
      [] s = "rtsp" -> w.rtsp_connects
      [] s = "demo" -> w.demo = "opens"
      [] s = "nothing" -> FALSE
\* Steps 4 and 5 of the list.
DemoOrPattern(w) == IF Opens("demo", w) THEN "demo" ELSE "test_pattern"

\* C32 as stated: the worker uses the listed source of the context, when
\* that fails the default demo video, and when that fails the test pattern.
C32_SourceOrder ==
    \A r \in {resolved[i] : i \in DOMAIN resolved} :
        r.source = IF Opens(ListedSource(r.context), r.world)
                   THEN ListedSource(r.context)
                   ELSE DemoOrPattern(r.world)

\* C32 amended: as stated, except that after a failed RTSP connect the
\* worker first uses the placeholder video when one is configured and
\* opens, before the default demo video.
C32_SourceOrderWithPlaceholderFallback ==
    \A r \in {resolved[i] : i \in DOMAIN resolved} :
        r.source =
            IF Opens(ListedSource(r.context), r.world)
            THEN ListedSource(r.context)
            ELSE IF ListedSource(r.context) = "rtsp"
                    /\ r.context.placeholder_video /\ r.world.placeholder_opens
            THEN "placeholder"
            ELSE DemoOrPattern(r.world)

\* An RTSP connect failed, the placeholder of the context opened and was used.
C32_Witness ==
    \E i \in DOMAIN resolved :
        /\ ListedSource(resolved[i].context) = "rtsp"
        /\ ~resolved[i].world.rtsp_connects
        /\ resolved[i].source = "placeholder"

\* C33: of the threads that ask should_create_event about one signature, at
\* most one obtains true within one cooldown window: no two threads hold a
\* true answer for the same signature obtained less than a cooldown apart.
C33_OneCallerAdmitted ==
    \A t \in Threads : \A u \in Threads \ {t} :
        ~ /\ thr[t].res /\ thr[u].res
          /\ thr[t].d = thr[u].d
          /\ thr[t].at <= thr[u].at
          /\ thr[u].at - thr[t].at < COOLDOWN_SECONDS

\* C34: the frames one client is sent are in publication order and none is
\* sent twice: their numbers increase strictly, the initial frame read from
\* latest_frame and the frames queued meanwhile included.
C34_YieldedInOrderOnce ==
    \A i \in DOMAIN viewer.yielded : \A j \in DOMAIN viewer.yielded :
        i < j => viewer.yielded[i] < viewer.yielded[j]

\* C35: once _stop_camera has cancelled and awaited the tasks of a context
\* (it is writing the offline status, or it has returned), no inference
\* task of that context is running, whatever that task was doing when the
\* stop began: nothing is left that could insert or publish an event or
\* write last_detections of the context.
C35_StoppedHasNoInference ==
    \A i \in DOMAIN ctxs :
        (/\ ctxs[i].state = "stopped"
         /\ cameras[ctxs[i].cam] # i
         /\ stopper.ctx = i => stopper.pc = "status")
            => (~InferLive(ctxs[i]) /\ ctxs[i].lost = 0)

\* _stop_camera has awaited both tasks of a context whose inference task was
\* running when the stop began.
C35_Witness ==
    /\ stopper.pc = "status"
    /\ stopper.infer
    /\ ctxs[stopper.ctx].state = "stopped"
    /\ ~InferLive(ctxs[stopper.ctx])

\* C36: the jobs of one runtime never overlap: the in-flight marker of a
\* runtime is cleared only in the step in which its running job ends, after
\* process_detections, and a job is started only when the marker is clear
\* and no job of the runtime is live.
C36_JobsDoNotOverlap ==
    [][\A i \in DOMAIN ctxs :
        /\ (ctxs[i].infer_in_flight /\ ~ctxs'[i].infer_in_flight) =>
              (ctxs[i].itask \in {"predict", "events"} /\ ~InferLive(ctxs'[i]))
        /\ (ctxs[i].itask # "new" /\ ctxs'[i].itask = "new") =>
              (~ctxs[i].infer_in_flight /\ ~InferLive(ctxs[i])
                    /\ ctxs'[i].infer_in_flight /\ ctxs'[i].lost = 0)]_vars

\* A job has run process_detections to its end and cleared the marker.
C36_Witness ==
    \E i \in DOMAIN ctxs :
        /\ ctxs[i].itask = "done"
        /\ ctxs[i].last_detections = 1
        /\ ~ctxs[i].infer_in_flight
        /\ ctxs[i].state # "stopped"

\* C37: after a signature was registered, every further sighting that comes
\* less than a cooldown after the sighting before it is suppressed, however
\* long ago the registration was.
C37_WindowRestarts ==
    \A d \in CoreDigests : chain[d].on => chain[d].suppressed

\* A sighting a cooldown or more after the registration was suppressed,
\* because the sightings in between restarted the window.
C37_Witness ==
    \E d \in CoreDigests :
        /\ chain[d].on /\ chain[d].suppressed
        /\ chain[d].n >= 2
        /\ chain[d].latest - chain[d].registered >= COOLDOWN_SECONDS

\* C38: while the broadcaster holds a subscription entry for the camera, the
\* listener task of that entry is running, so a client is never attached to
\* a subscription whose listener has ended.
C38_EntryHasLiveListener ==
    entry # 0 => pubsubs[entry].task = "running"

\* The _process_camera tasks of a camera that have not ended.
LiveTasks(c) == {i \in DOMAIN ctxs : ctxs[i].cam = c /\ ctxs[i].task # "done"}
\* The refresh loop tasks that have not ended.  start() creates the task
\* after its own refresh pass and returns at once when the manager is
\* running, so the refresh activity of the manager is the one record rp.
RefreshLoopTasks == IF rp.who = "loop" /\ rp.pc \notin {"off", "ended"} THEN {rp} ELSE {}

C40_FailedReadChangesNothing ==
    [][(/\ rp.who = "loop" /\ rp.pc = "db_read" /\ ~rp.cancel
        /\ rp'.pc \notin {"db_read", "pass", "lock_wait"}) =>
            /\ rp'.pc = "sleep" /\ rp'.who = "loop"
            /\ cameras' = cameras
            /\ ctxs' = ctxs
            /\ lock' = lock
            /\ stopper' = stopper]_vars

\* The table changed while the read of a pass of the refresh loop was
\* pending and the read failed: the loop sleeps and the manager still holds
\* the cameras of the pass before.
C40_Witness ==
    /\ rp.who = "loop" /\ rp.pc = "sleep" /\ ~rp.cancel
    /\ running /\ sp.pc = "idle"
    /\ Keys # {}
    /\ Keys # ActiveIds(db)
====
